---- MODULE Spec2Model ----
(***************************************************************************)
(* OMCSA runtime hooks and CLI commands over the project's state files:    *)
(*   .omcsa/mode.json                  (modeFile)                          *)
(*   .claude/omcsa.config.json         (config)                            *)
(*   <stateDir>/ralph-state.json       (ralphState)                        *)
(*   <stateDir>/ultrawork-state.json   (ultraworkState)                    *)
(*   <stateDir>/workflow-state.json    (workflowState)                     *)
(*   .claude/CLAUDE.md                 (claudeMd)                          *)
(*   .claude/omcsa-agents.md           (externalFile)                      *)
(*   ~/.claude/agents, .claude/agents  (agentDirs)                         *)
(*   ~/.claude/settings.json           (globalSettings)                    *)
(*   .omcsa/omc-backup.json            (omcBackup)                         *)
(* A file is a sequence of length 0 (absent) or 1 (its parsed content).    *)
(* Every hook invocation is one action: the host serialises them.          *)
(* Timestamps, the prompt text carried in a state file and the append-only *)
(* delegation log are written but never read by any hook, and are left out.*)
(***************************************************************************)
EXTENDS Integers, Sequences, FiniteSets, TLC

VARIABLES modeFile, config, ralphState, ultraworkState, workflowState, event, output,
          claudeMd, externalFile, agentDirs, globalSettings, omcBackup

vars == <<modeFile, config, ralphState, ultraworkState, workflowState, event, output,
          claudeMd, externalFile, agentDirs, globalSettings, omcBackup>>

\* the files no runtime hook reads or writes
installFiles == <<claudeMd, externalFile, agentDirs, globalSettings, omcBackup>>

(* ------------------------------ bounds -------------------------------- *)

MaxSteps == 3

MaxConfigIterations == 2

(* ------------------------- program constants -------------------------- *)

DefaultMaxIterations == 10

(* --------------------------- input universes -------------------------- *)

Agents == {"a", "b"}

\* a session id carried by a hook input; "" is an input without one
SessionIds == {"", "s1", "s2"}

InstallModes == {"standalone", "omc-only", "integrated"}

WRITE_EDIT_TOOLS == {"Write", "Edit", "MultiEdit", "NotebookEdit"}

\* the value of an array read past its end
Undefined == "<undefined>"

\* a file that does not exist
Absent == <<>>

\* Object.entries(config.workflows) yields the workflows in this order
WorkflowNames == <<"w1", "w2">>

StepLists == UNION {[1..n -> Agents] : n \in 0..MaxSteps}

WorkflowsOf(lists) ==
  [i \in 1..Len(lists) |-> [name |-> WorkflowNames[i], steps |-> lists[i]]]

WorkflowConfigs ==
  {WorkflowsOf(l) : l \in UNION {[1..k -> StepLists] : k \in 0..Len(WorkflowNames)}}

\* persistence.maxIterations as written in the config file; 0 is "not set"
MaxIterationsConfigs == {-1, 0} \cup (1..MaxConfigIterations)

\* features.delegationEnforcement as written in the config file; "" is "not set"
EnforcementConfigs == {"", "off", "warn", "strict"}

(* ------------------------- hook input and output ---------------------- *)

NoEvent ==
  [hook |-> "none", sessionId |-> "", tool |-> "", agent |-> "",
   emptyPrompt |-> FALSE, cancelKw |-> FALSE, ralphKw |-> FALSE, ultraworkKw |-> FALSE,
   userRequested |-> FALSE, stopReason |-> "",
   hasPath |-> FALSE, dir |-> "", ext |-> "",
   modeArg |-> "", omcFound |-> FALSE, omcMethod |-> "",
   maturityArg |-> "", outputArg |-> "", dryRun |-> FALSE,
   backupFails |-> FALSE, writeFails |-> FALSE, section |-> <<>>,
   unparseable |-> FALSE]

\* console.log(JSON.stringify({ continue: true }))
Yield ==
  [continue |-> TRUE, kind |-> "none", wf |-> "", n |-> 0, total |-> 0,
   agent |-> "", next |-> "", pipeline |-> <<>>, mode |-> "", exitCode |-> 0,
   agents |-> <<>>, score |-> 0, scale |-> 1, level |-> "", maturity |-> ""]

Message(kind) == [Yield EXCEPT !.kind = kind]

(* ------------------------------ mode record --------------------------- *)

\* the test written as mode === 'omc-only': integrated is taken for standalone
readModeSync_OmcOnly(file) ==
  IF file = Absent THEN "standalone"
  ELSE IF ~file[1].parses THEN "standalone"
  ELSE IF file[1].mode = "omc-only" THEN "omc-only"
  ELSE "standalone"

\* JSON.parse of mode.json, then data.mode || 'standalone'
readModeSync(file) ==
  IF file = Absent THEN "standalone"
  ELSE IF ~file[1].parses THEN "standalone"
  ELSE IF file[1].mode = "" THEN "standalone"
  ELSE file[1].mode

(* -------------------------- workflow run state ------------------------ *)

\* steps[i] with a JavaScript (0-based) index
At(steps, i) == IF i >= 0 /\ i < Len(steps) THEN steps[i + 1] ELSE Undefined

\* indices (in enumeration order) of the workflows whose steps[0] is the agent
FirstStepMatches(workflows, agentName) ==
  {i \in 1..Len(workflows) : At(workflows[i].steps, 0) = agentName}

Min(S) == CHOOSE x \in S : \A y \in S : x <= y

Max(S) == CHOOSE x \in S : \A y \in S : x >= y

\* the loop without its break: the last matching workflow overwrites the run file
StartedWorkflow_NoBreak(workflows, agentName) == Max(FirstStepMatches(workflows, agentName))

\* the for ... break loop over Object.entries(workflows)
StartedWorkflow(workflows, agentName) == Min(FirstStepMatches(workflows, agentName))

NewWorkflowState(wf, agentName, sessionId) ==
  [active |-> TRUE, workflowName |-> wf.name, steps |-> wf.steps,
   currentStepIndex |-> 1, completedSteps |-> <<agentName>>, sessionId |-> sessionId]

\* the step counted without being pushed onto completedSteps
AdvancedWorkflowState_NoPush(wfState, agentName) ==
  [wfState EXCEPT !.currentStepIndex = @ + 1]

AdvancedWorkflowState(wfState, agentName) ==
  [wfState EXCEPT !.completedSteps = Append(@, agentName),
                  !.currentStepIndex = @ + 1]

StartedMessage(wf, agentName) ==
  [Yield EXCEPT !.kind = "workflow-started", !.wf = wf.name, !.n = 1,
                !.total = Len(wf.steps), !.agent = agentName,
                !.next = At(wf.steps, 1)]

StepMessage(st, agentName) ==
  [Yield EXCEPT !.kind = "workflow-step", !.wf = st.workflowName,
                !.n = st.currentStepIndex, !.total = Len(st.steps),
                !.agent = agentName, !.next = At(st.steps, st.currentStepIndex)]

CompleteMessage(st) ==
  [Yield EXCEPT !.kind = "workflow-complete", !.wf = st.workflowName,
                !.total = Len(st.steps), !.pipeline = st.completedSteps]

\* completion tested with > instead of >=
ActiveRunStep_LateCompletion(wfState, agentName) ==
  IF agentName = At(wfState.steps, wfState.currentStepIndex)
  THEN LET st == AdvancedWorkflowState(wfState, agentName) IN
       IF st.currentStepIndex > Len(st.steps)
       THEN [file |-> Absent, out |-> CompleteMessage(st)]
       ELSE [file |-> <<st>>, out |-> StepMessage(st, agentName)]
  ELSE [file |-> <<wfState>>, out |-> Yield]

\* the active-run branch: the run file and the message after the event
ActiveRunStep(wfState, agentName) ==
  IF agentName = At(wfState.steps, wfState.currentStepIndex)
  THEN LET st == AdvancedWorkflowState(wfState, agentName) IN
       IF st.currentStepIndex >= Len(st.steps)
       THEN [file |-> Absent, out |-> CompleteMessage(st)]
       ELSE [file |-> <<st>>, out |-> StepMessage(st, agentName)]
  ELSE [file |-> <<wfState>>, out |-> Yield]

\* the no-active-run branch
NoRunStep(file, workflows, agentName, sessionId) ==
  IF FirstStepMatches(workflows, agentName) = {}
  THEN [file |-> file, out |-> Yield]
  ELSE LET wf == workflows[StartedWorkflow(workflows, agentName)] IN
       [file |-> <<NewWorkflowState(wf, agentName, sessionId)>>,
        out |-> IF Len(wf.steps) > 1 THEN StartedMessage(wf, agentName) ELSE Yield]

\* an out-of-order agent falls through to the first-step search
WorkflowTracking_FallThrough(file, workflows, agentName, sessionId) ==
  IF file # Absent /\ file[1].active
     /\ agentName = At(file[1].steps, file[1].currentStepIndex)
  THEN ActiveRunStep(file[1], agentName)
  ELSE NoRunStep(file, workflows, agentName, sessionId)

WorkflowTracking(file, workflows, agentName, sessionId) ==
  IF file # Absent /\ file[1].active
  THEN ActiveRunStep(file[1], agentName)
  ELSE NoRunStep(file, workflows, agentName, sessionId)

\* PostToolUse hook: one Task (or other tool) event
PostToolUse(tool, agent, sid) ==
  LET sessionId == IF sid = "" THEN "unknown" ELSE sid
      r == WorkflowTracking(workflowState, config.workflows, agent, sessionId)
  IN /\ event' = [NoEvent EXCEPT !.hook = "post-tool-use", !.tool = tool,
                                 !.agent = agent, !.sessionId = sid]
     /\ IF tool # "Task" \/ Len(config.workflows) = 0
        THEN /\ output' = Yield
             /\ workflowState' = workflowState
        ELSE /\ output' = r.out
             /\ workflowState' = r.file
     /\ UNCHANGED <<modeFile, config, ralphState, ultraworkState, installFiles>>

(* ----------------------- persistent-mode state ------------------------ *)

\* config.persistence?.maxIterations || 10
MaxIterationsOf(cfg) ==
  IF cfg.maxIterations = 0 THEN DefaultMaxIterations ELSE cfg.maxIterations

\* the state object the keyword detector writes
createState(mode, sessionId, maxIterations) ==
  [active |-> TRUE, mode |-> mode, iteration |-> 1,
   maxIterations |-> maxIterations, sessionId |-> sessionId]

\* priority of the keyword checks: cancel, then ralph, then ultrawork
detectKeyword(prompt) ==
  IF prompt.emptyPrompt THEN "none"
  ELSE IF prompt.cancelKw THEN "cancel"
  ELSE IF prompt.ralphKw THEN "ralph"
  ELSE IF prompt.ultraworkKw THEN "ultrawork"
  ELSE "none"

\* UserPromptSubmit hook, standalone logic: the two state files and the output
KeywordDetection(prompt, sid, cfg, ralph, uw) ==
  LET sessionId == IF sid = "" THEN "cli-session" ELSE sid
      kw == detectKeyword(prompt)
  IN CASE kw = "cancel" ->
            [ralph |-> Absent, uw |-> Absent, out |-> Message("cancelled")]
       [] kw = "ralph" ->
            [ralph |-> <<createState("ralph", sessionId, MaxIterationsOf(cfg))>>,
             uw |-> <<createState("ultrawork", sessionId, MaxIterationsOf(cfg))>>,
             out |-> Message("ralph-activated")]
       [] kw = "ultrawork" ->
            [ralph |-> ralph,
             uw |-> <<createState("ultrawork", sessionId, MaxIterationsOf(cfg))>>,
             out |-> Message("ultrawork-activated")]
       [] OTHER -> [ralph |-> ralph, uw |-> uw, out |-> Yield]

\* UserPromptSubmit hook
KeywordDetector(prompt, sid) ==
  LET r == KeywordDetection(prompt, sid, config, ralphState, ultraworkState) IN
  /\ event' = [NoEvent EXCEPT !.hook = "keyword-detector", !.sessionId = sid,
                              !.emptyPrompt = prompt.emptyPrompt,
                              !.cancelKw = prompt.cancelKw,
                              !.ralphKw = prompt.ralphKw,
                              !.ultraworkKw = prompt.ultraworkKw]
  /\ IF readModeSync(modeFile) # "standalone"
     THEN /\ output' = Yield
          /\ UNCHANGED <<ralphState, ultraworkState>>
     ELSE /\ output' = r.out
          /\ ralphState' = r.ralph
          /\ ultraworkState' = r.uw
  /\ UNCHANGED <<modeFile, config, workflowState, installFiles>>

\* the session check left out
ForeignSession_Never(state, sessionId) == FALSE

\* state.sessionId belongs to another session than the event's
ForeignSession(state, sessionId) ==
  sessionId # "" /\ state.sessionId # "" /\ state.sessionId # sessionId

\* the ceiling tested with > instead of >=
CheckState_LateCeiling(file, sessionId, name) ==
  IF file = Absent \/ ~file[1].active
  THEN [done |-> FALSE, file |-> file, out |-> Yield]
  ELSE IF ForeignSession(file[1], sessionId)
  THEN [done |-> TRUE, file |-> file, out |-> Yield]
  ELSE IF file[1].iteration > file[1].maxIterations
  THEN [done |-> TRUE, file |-> Absent,
        out |-> [Message(name \o "-stopped") EXCEPT !.total = file[1].maxIterations]]
  ELSE [done |-> TRUE,
        file |-> <<[file[1] EXCEPT !.iteration = @ + 1]>>,
        out |-> [Message(name \o "-continuation")
                   EXCEPT !.n = file[1].iteration + 1,
                          !.total = file[1].maxIterations]]

\* one "if (existsSync(path))" block of the Stop hook, for one state file:
\* done = the hook returns from this block; otherwise it falls through
CheckState(file, sessionId, name) ==
  IF file = Absent \/ ~file[1].active
  THEN [done |-> FALSE, file |-> file, out |-> Yield]
  ELSE IF ForeignSession(file[1], sessionId)
  THEN [done |-> TRUE, file |-> file, out |-> Yield]
  ELSE IF file[1].iteration >= file[1].maxIterations
  THEN [done |-> TRUE, file |-> Absent,
        out |-> [Message(name \o "-stopped") EXCEPT !.total = file[1].maxIterations]]
  ELSE [done |-> TRUE,
        file |-> <<[file[1] EXCEPT !.iteration = @ + 1]>>,
        out |-> [Message(name \o "-continuation")
                   EXCEPT !.n = file[1].iteration + 1,
                          !.total = file[1].maxIterations]]

\* Stop hook, standalone logic: ralph first, then ultrawork
PersistentModeCheck(userRequested, stopReason, sid, ralph, uw) ==
  IF userRequested \/ stopReason = "context_limit"
  THEN [ralph |-> ralph, uw |-> uw, out |-> Yield]
  ELSE LET r == CheckState(ralph, sid, "ralph")
           u == CheckState(uw, sid, "ultrawork")
       IN IF r.done THEN [ralph |-> r.file, uw |-> uw, out |-> r.out]
          ELSE IF u.done THEN [ralph |-> ralph, uw |-> u.file, out |-> u.out]
          ELSE [ralph |-> ralph, uw |-> uw, out |-> Yield]

\* Stop hook
PersistentMode(userRequested, stopReason, sid) ==
  LET r == PersistentModeCheck(userRequested, stopReason, sid, ralphState, ultraworkState) IN
  /\ event' = [NoEvent EXCEPT !.hook = "persistent-mode", !.sessionId = sid,
                              !.userRequested = userRequested,
                              !.stopReason = stopReason]
  /\ IF readModeSync(modeFile) # "standalone"
     THEN /\ output' = Yield
          /\ UNCHANGED <<ralphState, ultraworkState>>
     ELSE /\ output' = r.out
          /\ ralphState' = r.ralph
          /\ ultraworkState' = r.uw
  /\ UNCHANGED <<modeFile, config, workflowState, installFiles>>

(* ------------------------ delegation enforcement ---------------------- *)

SOURCE_EXTENSIONS ==
  {".ts", ".tsx", ".js", ".jsx", ".mjs", ".cjs", ".py", ".rb", ".go", ".rs",
   ".java", ".kt", ".c", ".cpp", ".h", ".hpp", ".cs", ".swift", ".vue",
   ".svelte", ".astro"}

\* ALLOWED_PATH_PATTERNS over a project-relative path: its top directory ("" for
\* a file at the root) and the extension it ends with
AllowedPath(path) ==
  \/ path.dir \in {".omcsa", ".claude", ".omc", "claudedocs"}
  \/ path.ext \in {".md", ".json", ".yml", ".yaml", ".toml", ".lock"}

\* config.features?.delegationEnforcement || 'warn'
EnforcementLevel(cfg) ==
  IF cfg.delegationEnforcement = "" THEN "warn" ELSE cfg.delegationEnforcement

\* the source-extension test taken before the allowed-path test
DelegationCheck_ExtensionFirst(tool, path, cfg) ==
  IF tool \notin WRITE_EDIT_TOOLS THEN Yield
  ELSE IF EnforcementLevel(cfg) = "off" THEN Yield
  ELSE IF ~path.hasPath THEN Yield
  ELSE IF path.ext \notin SOURCE_EXTENSIONS THEN Yield
  ELSE IF EnforcementLevel(cfg) = "strict"
  THEN [Message("delegation-blocked") EXCEPT !.continue = FALSE]
  ELSE Message("delegation-reminder")

\* PreToolUse hook, standalone logic
DelegationCheck(tool, path, cfg) ==
  IF tool \notin WRITE_EDIT_TOOLS THEN Yield
  ELSE IF EnforcementLevel(cfg) = "off" THEN Yield
  ELSE IF ~path.hasPath THEN Yield
  ELSE IF AllowedPath(path) THEN Yield
  ELSE IF path.ext \notin SOURCE_EXTENSIONS THEN Yield
  ELSE IF EnforcementLevel(cfg) = "strict"
  THEN [Message("delegation-blocked") EXCEPT !.continue = FALSE]
  ELSE Message("delegation-reminder")

\* PreToolUse hook, standard input that JSON.parse rejects
PreToolUseUnparseable ==
  /\ event' = [NoEvent EXCEPT !.hook = "pre-tool-use", !.unparseable = TRUE]
  /\ output' = Yield
  /\ UNCHANGED <<modeFile, config, ralphState, ultraworkState, workflowState, installFiles>>

\* PreToolUse hook
PreToolUse(tool, path) ==
  /\ event' = [NoEvent EXCEPT !.hook = "pre-tool-use", !.tool = tool,
                              !.hasPath = path.hasPath, !.dir = path.dir,
                              !.ext = path.ext]
  /\ output' = IF readModeSync(modeFile) # "standalone" THEN Yield
               ELSE DelegationCheck(tool, path, config)
  /\ UNCHANGED <<modeFile, config, ralphState, ultraworkState, workflowState, installFiles>>

(* --------------------------- mode management -------------------------- *)

isValidMode(mode) == mode \in {"standalone", "omc-only", "integrated"}

NotDetected == [found |-> FALSE, method |-> ""]

\* the results detectOmc can return
OmcResults == {NotDetected} \cup [found : {TRUE}, method : {"plugin", "hooks", "settings"}]

\* a detected third party switches the default to integrated
resolveInstallMode_AutoIntegrated(explicitMode, omcResult) ==
  IF explicitMode # ""
  THEN IF omcResult.found /\ explicitMode = "standalone"
       THEN [mode |-> explicitMode, advisory |-> "both-active"]
       ELSE [mode |-> explicitMode, advisory |-> ""]
  ELSE IF omcResult.found
  THEN [mode |-> "integrated", advisory |-> "tip-integrated"]
  ELSE [mode |-> "standalone", advisory |-> ""]

\* explicitMode "" is "no --mode given"
resolveInstallMode(explicitMode, omcResult) ==
  IF explicitMode # ""
  THEN IF omcResult.found /\ explicitMode = "standalone"
       THEN [mode |-> explicitMode, advisory |-> "both-active"]
       ELSE [mode |-> explicitMode, advisory |-> ""]
  ELSE IF omcResult.found
  THEN [mode |-> "standalone", advisory |-> "tip-integrated"]
  ELSE [mode |-> "standalone", advisory |-> ""]

\* the content of mode.json after saveMode
saveMode(mode, omcResult) ==
  <<[parses |-> TRUE, mode |-> mode, detectedOmc |-> omcResult.found,
     omcMethod |-> omcResult.method]>>

\* loadMode(projectRoot)?.mode || 'standalone'
CurrentMode(file) ==
  IF file = Absent \/ ~file[1].parses \/ file[1].mode = "" THEN "standalone"
  ELSE file[1].mode

\* omcsa switch <mode>
runSwitch(modeArg, omcResult) ==
  /\ event' = [NoEvent EXCEPT !.hook = "switch", !.modeArg = modeArg,
                              !.omcFound = omcResult.found,
                              !.omcMethod = omcResult.method]
  /\ IF ~isValidMode(modeArg)
     THEN /\ output' = [Message("invalid-mode") EXCEPT !.exitCode = 1]
          /\ modeFile' = modeFile
     ELSE IF CurrentMode(modeFile) = modeArg
     THEN /\ output' = [Message("already-in-mode") EXCEPT !.mode = modeArg]
          /\ modeFile' = modeFile
     ELSE /\ output' = [Message("mode-switched") EXCEPT !.mode = modeArg]
          /\ modeFile' = saveMode(modeArg, omcResult)
  /\ UNCHANGED <<config, ralphState, ultraworkState, workflowState, installFiles>>

(* ------------------------------ cancel -------------------------------- *)

\* omcsa cancel: unlink every *-state.json of the state directory
runCancel ==
  /\ ralphState' = Absent
  /\ ultraworkState' = Absent
  /\ workflowState' = Absent
  /\ event' = [NoEvent EXCEPT !.hook = "cancel"]
  /\ output' = [Message("cli") EXCEPT !.n = Len(ralphState) + Len(ultraworkState) + Len(workflowState)]
  /\ UNCHANGED <<modeFile, config, installFiles>>

(* ------------------------------ agent scanner ------------------------- *)

\* the two agent directories without any agent file
NoAgentDirs == [global |-> <<>>, project |-> <<>>]

AgentCategories == {"implementation", "review", "testing", "exploration", "other"}

\* the synonym table, as the set of its <<key, value>> entries
CATEGORY_SYNONYMS ==
  {<<"engineering", "implementation">>, <<"development", "implementation">>,
   <<"dev", "implementation">>, <<"coding", "implementation">>,
   <<"builder", "implementation">>, <<"quality", "review">>, <<"audit", "review">>,
   <<"verification", "review">>, <<"qa", "testing">>, <<"test", "testing">>,
   <<"spec", "testing">>, <<"analysis", "exploration">>,
   <<"research", "exploration">>, <<"investigation", "exploration">>}

\* value.toLowerCase(), over the spellings the model uses
ToLowerCase(value) ==
  CASE value = "QA" -> "qa"
    [] value = "Review" -> "review"
    [] OTHER -> value

\* review tested before testing
inferCategory_ReviewFirst(keywords) ==
  IF "review" \in keywords THEN "review"
  ELSE IF "testing" \in keywords THEN "testing"
  ELSE IF "exploration" \in keywords THEN "exploration"
  ELSE IF "implementation" \in keywords THEN "implementation"
  ELSE "other"

\* keywords: the classes of which a keyword occurs in `${name} ${description}`
inferCategory(keywords) ==
  IF "testing" \in keywords THEN "testing"
  ELSE IF "review" \in keywords THEN "review"
  ELSE IF "exploration" \in keywords THEN "exploration"
  ELSE IF "implementation" \in keywords THEN "implementation"
  ELSE "other"

\* what CATEGORY_SYNONYMS['constructor'] is: the table is an object literal,
\* and the lookup finds the property it inherits from Object.prototype
ObjectConstructor == "[Function: Object]"

\* CATEGORY_SYNONYMS[lower] || 'other'
validateCategory(value) ==
  LET lower == ToLowerCase(value) IN
  IF lower \in AgentCategories THEN lower
  ELSE IF \E e \in CATEGORY_SYNONYMS : e[1] = lower
  THEN (CHOOSE e \in CATEGORY_SYNONYMS : e[1] = lower)[2]
  ELSE IF lower = "constructor" THEN ObjectConstructor
  ELSE "other"

\* an agent file: its base name, the name and category of its frontmatter
\* ("" when the key is absent) and the keyword classes of its name and description
parseAgentFile(f, scope) ==
  [name |-> IF f.name # "" THEN f.name ELSE f.file,
   category |-> IF f.category # "" THEN validateCategory(f.category)
                ELSE inferCategory(f.keywords),
   scope |-> scope,
   filePath |-> <<scope, f.file>>]

\* the files of a directory in readdir order; an unreadable file gives no agent
RECURSIVE scanDirectory(_, _)
scanDirectory(files, scope) ==
  IF files = <<>> THEN <<>>
  ELSE IF ~files[1].readable THEN scanDirectory(Tail(files), scope)
  ELSE <<parseAgentFile(files[1], scope)>> \o scanDirectory(Tail(files), scope)

\* agentMap.set(agent.name, agent): a new key goes last, an existing key keeps
\* its place and takes the new value
MapSet(entries, agent) ==
  IF \E i \in 1..Len(entries) : entries[i].name = agent.name
  THEN [i \in 1..Len(entries) |->
          IF entries[i].name = agent.name THEN agent ELSE entries[i]]
  ELSE Append(entries, agent)

RECURSIVE MapSetAll(_, _)
MapSetAll(entries, agents) ==
  IF agents = <<>> THEN entries
  ELSE MapSetAll(MapSet(entries, agents[1]), Tail(agents))

\* the project agents entered in the map before the global ones
scanAgents_GlobalWins(dirs) ==
  MapSetAll(MapSetAll(<<>>, scanDirectory(dirs.project, "project")),
            scanDirectory(dirs.global, "global"))

scanAgents(dirs) ==
  MapSetAll(MapSetAll(<<>>, scanDirectory(dirs.global, "global")),
            scanDirectory(dirs.project, "project"))

\* a scan of the two directories, as every command starts with
ScanAgents ==
  /\ event' = [NoEvent EXCEPT !.hook = "scan"]
  /\ output' = [Message("agents") EXCEPT !.agents = scanAgents(agentDirs)]
  /\ UNCHANGED <<modeFile, config, ralphState, ultraworkState, workflowState, installFiles>>

(* ---------------------------- host document --------------------------- *)
(* A document is a sequence of tokens: a marker, a newline, or a piece of  *)
(* text without newline (a word of user text, an agent name, a phrase that *)
(* one analysis pattern matches).                                          *)

OMCSA_MARKER_START ==
  "<!-- [OMCSA:START] - Auto-generated by oh-my-claude-sub-agents. Do not edit manually. -->"

OMCSA_MARKER_END == "<!-- [OMCSA:END] -->"

Newline == "<nl>"

\* content.indexOf(token), -1 when it does not occur
indexOf(content, token) ==
  IF \E i \in 1..Len(content) : content[i] = token
  THEN Min({i \in 1..Len(content) : content[i] = token}) - 1
  ELSE -1

\* content.slice(from, to) and content.slice(from), with 0-based indices
slice(content, from, to) == SubSeq(content, from + 1, to)

sliceFrom(content, from) == SubSeq(content, from + 1, Len(content))

endsWithNewline(content) == content # <<>> /\ content[Len(content)] = Newline

\* the section appended without looking for the markers
updateClaudeMdContent_AlwaysAppend(existingContent, orchestratorPrompt) ==
  existingContent
    \o (IF endsWithNewline(existingContent) THEN <<Newline>> ELSE <<Newline, Newline>>)
    \o orchestratorPrompt \o <<Newline>>

updateClaudeMdContent(existingContent, orchestratorPrompt) ==
  LET startIdx == indexOf(existingContent, OMCSA_MARKER_START)
      endIdx == indexOf(existingContent, OMCSA_MARKER_END)
  IN IF startIdx # -1 /\ endIdx # -1
     THEN slice(existingContent, 0, startIdx) \o orchestratorPrompt
            \o sliceFrom(existingContent, endIdx + 1)
     ELSE existingContent
            \o (IF endsWithNewline(existingContent) THEN <<Newline>>
                ELSE <<Newline, Newline>>)
            \o orchestratorPrompt \o <<Newline>>

\* replace(/\n{3,}/g, '\n\n')
RECURSIVE CollapseNewlines(_)
CollapseNewlines(content) ==
  IF content = <<>> THEN <<>>
  ELSE IF Len(content) >= 3 /\ content[1] = Newline /\ content[2] = Newline
          /\ content[3] = Newline
  THEN CollapseNewlines(Tail(content))
  ELSE <<content[1]>> \o CollapseNewlines(Tail(content))

RECURSIVE TrimStart(_)
TrimStart(content) ==
  IF content # <<>> /\ content[1] = Newline THEN TrimStart(Tail(content)) ELSE content

RECURSIVE TrimEnd(_)
TrimEnd(content) ==
  IF endsWithNewline(content) THEN TrimEnd(SubSeq(content, 1, Len(content) - 1))
  ELSE content

\* trim(): the only whitespace of a document of the model is the newline
Trim(content) == TrimEnd(TrimStart(content))

removeOmcsaSection(content) ==
  LET startIdx == indexOf(content, OMCSA_MARKER_START)
      endIdx == indexOf(content, OMCSA_MARKER_END)
  IN IF startIdx = -1 \/ endIdx = -1 THEN content
     ELSE Trim(CollapseNewlines(slice(content, 0, startIdx)
                                  \o sliceFrom(content, endIdx + 1)))
            \o <<Newline>>

\* the content of a file that may not exist: '' when it does not
ReadOrEmpty(file) == IF file = Absent THEN <<>> ELSE file[1]

(* --------------------------- maturity analysis ------------------------ *)

\* the phrases of a document that one pattern of each list matches
WORKFLOW_PATTERNS == {"wf1", "wf2", "wf3", "wf4"}

TASK_TOOL_PATTERNS == {"tt1", "tt2", "tt3", "tt4"}

DELEGATION_PATTERNS == {"dp1", "dp2", "dp3"}

\* a piece of text that /@\w+\.md\b/ matches
ImportDirective == "@rules.md"

\* weights and thresholds, in hundredths
WEIGHTS ==
  [agentNameReferences |-> 20, workflowKeywords |-> 35, taskToolUsage |-> 25,
   delegationPatterns |-> 20]

MEDIUM_THRESHOLD == 25

HIGH_THRESHOLD == 60

ImportBonus == 10

Tokens(content) == {content[i] : i \in DOMAIN content}

\* the number of patterns of the list that match the content
Matches(content, patterns) == Cardinality(Tokens(content) \cap patterns)

\* a signal score is the fraction num / den
analyzeAgentNameReferences(content, agents) ==
  IF Len(agents) = 0 THEN [num |-> 0, den |-> 1]
  ELSE [num |-> Cardinality({i \in 1..Len(agents) : agents[i].name \in Tokens(content)}),
        den |-> Len(agents)]

analyzeWorkflowKeywords(content) ==
  [num |-> Min({Matches(content, WORKFLOW_PATTERNS), 3}), den |-> 3]

analyzeTaskToolUsage(content) ==
  [num |-> Min({Matches(content, TASK_TOOL_PATTERNS), 3}), den |-> 3]

analyzeDelegationPatterns(content) ==
  [num |-> Min({Matches(content, DELEGATION_PATTERNS), 2}), den |-> 2]

hasImportDirectives(content) == ImportDirective \in Tokens(content)

\* the thresholds tested with > instead of >=
LevelOf_Strict(score, scale) ==
  IF score * 100 > HIGH_THRESHOLD * scale THEN "HIGH"
  ELSE IF score * 100 > MEDIUM_THRESHOLD * scale THEN "MEDIUM"
  ELSE "LOW"

\* the level of a score of `score` parts of `scale`
LevelOf(score, scale) ==
  IF score * 100 >= HIGH_THRESHOLD * scale THEN "HIGH"
  ELSE IF score * 100 >= MEDIUM_THRESHOLD * scale THEN "MEDIUM"
  ELSE "LOW"

\* compositeScore is score / scale: the four signals are brought to the common
\* denominator 6 * den(agentRef) and weighted in hundredths
analyzeMaturity(cleanedContent, agents) ==
  LET agentRef == analyzeAgentNameReferences(cleanedContent, agents)
      workflow == analyzeWorkflowKeywords(cleanedContent)
      taskTool == analyzeTaskToolUsage(cleanedContent)
      delegation == analyzeDelegationPatterns(cleanedContent)
      unit == 6 * agentRef.den
      scale == 100 * unit
      Part(sig, weight) == weight * sig.num * (unit \div sig.den)
      weighted == Part(agentRef, WEIGHTS.agentNameReferences)
                    + Part(workflow, WEIGHTS.workflowKeywords)
                    + Part(taskTool, WEIGHTS.taskToolUsage)
                    + Part(delegation, WEIGHTS.delegationPatterns)
      compositeScore == IF hasImportDirectives(cleanedContent)
                        THEN Min({weighted + ImportBonus * unit, scale})
                        ELSE weighted
  IN [level |-> LevelOf(compositeScore, scale), score |-> compositeScore,
      scale |-> scale,
      signals |-> [agentNameReferences |-> agentRef, workflowKeywords |-> workflow,
                   taskToolUsage |-> taskTool, delegationPatterns |-> delegation]]

MaturityLevels == {"LOW", "MEDIUM", "HIGH"}

\* cliMaturity || configMode || 'auto'; "" is "not given"
resolveMaturityLevel(cliMaturity, configMode, analyzed) ==
  LET effective == IF cliMaturity # "" THEN cliMaturity
                   ELSE IF configMode # "" THEN configMode
                   ELSE "auto"
  IN IF effective = "auto" THEN analyzed.level
     ELSE IF effective \in MaturityLevels THEN effective
     ELSE "LOW"

(* ---------------------------- prompt generator ------------------------ *)

\* the directive to use the locally registered agents only: the section of the
\* MEDIUM and LOW prompts and the line of the HIGH prompt
AgentExclusivity == "### Agent Exclusivity (Standalone Mode)"

AgentExclusivityLine == "Agents: custom only (no OMC)"

\* the @import reference of the external output mode
ImportReference == "@omcsa-agents.md"

RECURSIVE AgentRows(_)
AgentRows(agents) ==
  IF agents = <<>> THEN <<>> ELSE <<agents[1].name>> \o AgentRows(Tail(agents))

\* the sections between the markers: the agent table, the phrases of the fixed
\* text that an analysis pattern matches, and the exclusivity directive
generateOrchestratorPromptContent(agents, options) ==
  LET exclusive == options.omcDetected /\ options.mode # "integrated"
      exclusivity == IF exclusive THEN <<AgentExclusivity>> ELSE <<>>
  IN IF options.maturityLevel = "HIGH"
     THEN AgentRows(agents) \o <<"wf1">>
            \o (IF exclusive THEN <<AgentExclusivityLine>> ELSE <<>>)
     ELSE IF options.maturityLevel = "MEDIUM"
     THEN AgentRows(agents) \o <<"wf1", "tt1">> \o exclusivity
     ELSE AgentRows(agents) \o <<"wf1", "wf2", "tt1">> \o exclusivity

generateOrchestratorPrompt(agents, options) ==
  <<OMCSA_MARKER_START>> \o generateOrchestratorPromptContent(agents, options)
    \o <<OMCSA_MARKER_END>>

generateImportReference == <<OMCSA_MARKER_START, ImportReference, OMCSA_MARKER_END>>

(* ------------------------------ commands ------------------------------ *)

\* the configuration when omcsa.config.json does not exist: every key absent
DefaultConfig ==
  [workflows |-> <<>>, maxIterations |-> 0, delegationEnforcement |-> "",
   maturityMode |-> "", outputMode |-> ""]

\* the analysis run on the document as it is, the generated section included
CleanedContent_Unstripped(existingContent) == existingContent

\* the text given to the maturity analysis
CleanedContent(existingContent) == removeOmcsaSection(existingContent)

\* the directive asked for whenever the third party is detected
OmcExclusive_Detected(omcResult, mode) == omcResult.found

\* promptOptions.omcDetected
OmcExclusive(omcResult, mode) == omcResult.found /\ mode = "standalone"

\* options.output if it is inline or external, else the configured mode or 'external'
OutputMode(outputArg, cfg) ==
  IF outputArg \in {"inline", "external"} THEN outputArg
  ELSE IF cfg.outputMode # "" THEN cfg.outputMode
  ELSE "external"

\* the steps init and apply share: analysis of the existing document, then the
\* new content of CLAUDE.md and of the external file
RegeneratePrompt(existingContent, agents, cfg, mode, omcResult, maturityArg, outputArg) ==
  LET maturityResult == analyzeMaturity(CleanedContent(existingContent), agents)
      effectiveMaturity == resolveMaturityLevel(maturityArg, cfg.maturityMode, maturityResult)
      outputMode == OutputMode(outputArg, cfg)
      promptOptions == [omcDetected |-> OmcExclusive(omcResult, mode),
                        maturityLevel |-> effectiveMaturity, mode |-> mode]
  IN [maturityResult |-> maturityResult,
      effectiveMaturity |-> effectiveMaturity,
      outputMode |-> outputMode,
      externalFileContent |-> generateOrchestratorPromptContent(agents, promptOptions),
      updatedContent |->
        IF outputMode = "external"
        THEN updateClaudeMdContent(existingContent, generateImportReference)
        ELSE updateClaudeMdContent(existingContent,
                                   generateOrchestratorPrompt(agents, promptOptions))]

\* what a command reports: the mode, the analysed score and level, the level used
Report(kind, mode, advisory, r) ==
  [Message(kind) EXCEPT !.mode = mode, !.next = advisory,
                        !.score = r.maturityResult.score,
                        !.scale = r.maturityResult.scale,
                        !.level = r.maturityResult.level,
                        !.maturity = r.effectiveMaturity]

CommandEvent(hook, modeArg, maturityArg, outputArg, omcResult, dryRun) ==
  [NoEvent EXCEPT !.hook = hook, !.modeArg = modeArg, !.maturityArg = maturityArg,
                  !.outputArg = outputArg, !.omcFound = omcResult.found,
                  !.omcMethod = omcResult.method, !.dryRun = dryRun]

\* omcsa init [--mode] [--maturity] [--output] [--dry-run], without --config
\* (an argument "" is "not given")
runInit(modeArg, maturityArg, outputArg, omcResult, dryRun) ==
  LET agents == scanAgents(agentDirs)
      m == resolveInstallMode(modeArg, omcResult)
      r == RegeneratePrompt(ReadOrEmpty(claudeMd), agents, config, m.mode,
                            omcResult, maturityArg, outputArg)
  IN /\ event' = CommandEvent("init", modeArg, maturityArg, outputArg, omcResult, dryRun)
     /\ IF agents = <<>>
        THEN /\ output' = Message("no-agents")
             /\ UNCHANGED <<modeFile, claudeMd, externalFile>>
        ELSE IF modeArg # "" /\ ~isValidMode(modeArg)
        THEN /\ output' = [Message("invalid-mode") EXCEPT !.exitCode = 1]
             /\ UNCHANGED <<modeFile, claudeMd, externalFile>>
        ELSE IF dryRun
        THEN /\ output' = Report("dry-run", m.mode, m.advisory, r)
             /\ UNCHANGED <<modeFile, claudeMd, externalFile>>
        ELSE /\ output' = Report("setup-complete", m.mode, m.advisory, r)
             /\ claudeMd' = <<r.updatedContent>>
             /\ externalFile' = IF r.outputMode = "external"
                                THEN <<r.externalFileContent>> ELSE Absent
             /\ modeFile' = saveMode(m.mode, omcResult)
     /\ UNCHANGED <<config, ralphState, ultraworkState, workflowState,
                    agentDirs, globalSettings, omcBackup>>

\* omcsa apply [--maturity] [--output] [--dry-run]
runApply(maturityArg, outputArg, omcResult, dryRun) ==
  LET agents == scanAgents(agentDirs)
      mode == CurrentMode(modeFile)
      r == RegeneratePrompt(ReadOrEmpty(claudeMd), agents, config, mode,
                            omcResult, maturityArg, outputArg)
  IN /\ event' = CommandEvent("apply", "", maturityArg, outputArg, omcResult, dryRun)
     /\ IF agents = <<>>
        THEN /\ output' = Message("no-agents")
             /\ UNCHANGED <<claudeMd, externalFile>>
        ELSE IF dryRun
        THEN /\ output' = Report("dry-run", mode, "", r)
             /\ UNCHANGED <<claudeMd, externalFile>>
        ELSE /\ output' = Report("applied", mode, "", r)
             /\ claudeMd' = <<r.updatedContent>>
             /\ externalFile' = IF r.outputMode = "external"
                                THEN <<r.externalFileContent>> ELSE Absent
     /\ UNCHANGED <<modeFile, config, ralphState, ultraworkState, workflowState,
                    agentDirs, globalSettings, omcBackup>>

\* omcsa refresh [--maturity]: the prompt always goes into CLAUDE.md itself
runRefresh(maturityArg, omcResult) ==
  LET agents == scanAgents(agentDirs)
      mode == CurrentMode(modeFile)
      r == RegeneratePrompt(ReadOrEmpty(claudeMd), agents, config, mode,
                            omcResult, maturityArg, "inline")
  IN /\ event' = CommandEvent("refresh", "", maturityArg, "", omcResult, FALSE)
     /\ IF agents = <<>>
        THEN /\ output' = Message("no-agents")
             /\ claudeMd' = IF claudeMd = Absent THEN Absent
                            ELSE <<removeOmcsaSection(claudeMd[1])>>
        ELSE /\ output' = Report("refreshed", mode, "", r)
             /\ claudeMd' = <<r.updatedContent>>
     /\ UNCHANGED <<modeFile, config, ralphState, ultraworkState, workflowState,
                    externalFile, agentDirs, globalSettings, omcBackup>>

\* omcsa uninstall: the section, the external file, the .omcsa directory and
\* the configuration file are removed
runUninstall ==
  /\ event' = [NoEvent EXCEPT !.hook = "uninstall"]
  /\ output' = Message("uninstalled")
  /\ claudeMd' = IF claudeMd = Absent THEN Absent
                 ELSE <<removeOmcsaSection(claudeMd[1])>>
  /\ externalFile' = Absent
  /\ modeFile' = Absent
  /\ ralphState' = Absent
  /\ ultraworkState' = Absent
  /\ workflowState' = Absent
  /\ omcBackup' = Absent
  /\ config' = DefaultConfig
  /\ UNCHANGED <<agentDirs, globalSettings>>

(* ------------------------- third-party plugin ------------------------- *)
(* ~/.claude/settings.json is absent or a record: whether it parses, whether *)
(* enabledPlugins is an array, and the entries of that array. The backup is  *)
(* absent or a record: whether it parses, and removedPlugins.                *)

\* typeof p === 'string' && p.toLowerCase().includes('oh-my-claudecode')
IsOmcEntry(p) == p \in {"oh-my-claudecode@omc", "Oh-My-ClaudeCode"}

IsOtherEntry(p) == ~IsOmcEntry(p)

\* readSettings() returns null
SettingsUnreadable(file) == file = Absent \/ ~file[1].parses

Thrown == [Message("error") EXCEPT !.exitCode = 1]

\* settings.json written before the backup
DisableOutcome_SettingsFirst(file, backup, backupFails, writeFails) ==
  IF SettingsUnreadable(file)
  THEN [settings |-> file, backup |-> backup,
        output |-> [Message("settings-unreadable") EXCEPT !.exitCode = 1]]
  ELSE IF ~file[1].hasPlugins \/ SelectSeq(file[1].enabledPlugins, IsOmcEntry) = <<>>
  THEN [settings |-> file, backup |-> backup, output |-> Message("nothing-to-disable")]
  ELSE IF writeFails
  THEN [settings |-> file, backup |-> backup, output |-> Thrown]
  ELSE LET written == <<[file[1] EXCEPT !.enabledPlugins =
                                         SelectSeq(file[1].enabledPlugins, IsOtherEntry)]>>
       IN IF backupFails
          THEN [settings |-> written, backup |-> backup, output |-> Thrown]
          ELSE [settings |-> written,
                backup |-> <<[parses |-> TRUE,
                              removedPlugins |-> SelectSeq(file[1].enabledPlugins, IsOmcEntry)]>>,
                output |-> Message("omc-disabled")]

\* runOmcDisable: the files and the result it leaves; a write that fails throws
DisableOutcome(file, backup, backupFails, writeFails) ==
  IF SettingsUnreadable(file)
  THEN [settings |-> file, backup |-> backup,
        output |-> [Message("settings-unreadable") EXCEPT !.exitCode = 1]]
  ELSE IF ~file[1].hasPlugins \/ SelectSeq(file[1].enabledPlugins, IsOmcEntry) = <<>>
  THEN [settings |-> file, backup |-> backup, output |-> Message("nothing-to-disable")]
  ELSE IF backupFails
  THEN [settings |-> file, backup |-> backup, output |-> Thrown]
  ELSE LET written == <<[parses |-> TRUE,
                         removedPlugins |-> SelectSeq(file[1].enabledPlugins, IsOmcEntry)]>>
       IN IF writeFails
          THEN [settings |-> file, backup |-> written, output |-> Thrown]
          ELSE [settings |-> <<[file[1] EXCEPT !.enabledPlugins =
                                  SelectSeq(file[1].enabledPlugins, IsOtherEntry)]>>,
                backup |-> written,
                output |-> Message("omc-disabled")]

\* omcsa omc disable
runOmcDisable(backupFails, writeFails) ==
  LET r == DisableOutcome(globalSettings, omcBackup, backupFails, writeFails)
  IN /\ event' = [NoEvent EXCEPT !.hook = "omc-disable", !.backupFails = backupFails,
                                 !.writeFails = writeFails]
     /\ output' = r.output
     /\ globalSettings' = r.settings
     /\ omcBackup' = r.backup
     /\ UNCHANGED <<modeFile, config, ralphState, ultraworkState, workflowState,
                    claudeMd, externalFile, agentDirs>>

\* the entries of the backup that the settings do not list, each pushed
RECURSIVE Restored(_, _)
Restored(removedPlugins, plugins) ==
  IF removedPlugins = <<>> THEN <<>>
  ELSE (IF \E i \in 1..Len(plugins) : plugins[i] = removedPlugins[1] THEN <<>>
        ELSE <<removedPlugins[1]>>)
         \o Restored(Tail(removedPlugins), plugins)

\* omcsa omc enable
runOmcEnable(writeFails) ==
  /\ event' = [NoEvent EXCEPT !.hook = "omc-enable", !.writeFails = writeFails]
  /\ IF omcBackup = Absent
     THEN /\ output' = Message("no-backup")
          /\ UNCHANGED <<globalSettings, omcBackup>>
     ELSE IF ~omcBackup[1].parses
     THEN /\ output' = [Message("backup-unparseable") EXCEPT !.exitCode = 1]
          /\ UNCHANGED <<globalSettings, omcBackup>>
     ELSE IF omcBackup[1].removedPlugins = <<>>
     THEN /\ output' = Message("backup-empty")
          /\ UNCHANGED <<globalSettings, omcBackup>>
     ELSE IF SettingsUnreadable(globalSettings)
     THEN /\ output' = [Message("settings-unreadable") EXCEPT !.exitCode = 1]
          /\ UNCHANGED <<globalSettings, omcBackup>>
     ELSE IF writeFails
     THEN /\ output' = Thrown
          /\ UNCHANGED <<globalSettings, omcBackup>>
     ELSE LET plugins == IF globalSettings[1].hasPlugins
                         THEN globalSettings[1].enabledPlugins ELSE <<>>
          IN /\ output' = Message("omc-enabled")
             /\ globalSettings' =
                  <<[globalSettings[1] EXCEPT
                       !.hasPlugins = TRUE,
                       !.enabledPlugins =
                          plugins \o Restored(omcBackup[1].removedPlugins, plugins)]>>
             /\ omcBackup' = Absent
  /\ UNCHANGED <<modeFile, config, ralphState, ultraworkState, workflowState,
                 claudeMd, externalFile, agentDirs>>

(* --------------------------- specifications --------------------------- *)

\* the state files of a project in which no hook has run yet
InitState ==
  /\ modeFile = Absent
  /\ ralphState = Absent
  /\ ultraworkState = Absent
  /\ workflowState = Absent
  /\ event = NoEvent
  /\ output = Yield

InitFiles ==
  /\ InitState
  /\ claudeMd = Absent
  /\ externalFile = Absent
  /\ agentDirs = NoAgentDirs
  /\ globalSettings = Absent
  /\ omcBackup = Absent

InitWorkflow ==
  /\ InitFiles
  /\ config \in [workflows : WorkflowConfigs, maxIterations : {0},
                 delegationEnforcement : {""}, maturityMode : {""}, outputMode : {""}]

TaskEvent == \E agent \in Agents \cup {""}, sid \in SessionIds : PostToolUse("Task", agent, sid)

OtherToolEvent == \E sid \in SessionIds : PostToolUse("Read", "", sid)

NextWorkflow == TaskEvent \/ OtherToolEvent \/ runCancel

SpecWorkflow == InitWorkflow /\ [][NextWorkflow]_vars

Prompts ==
  {[emptyPrompt |-> TRUE, cancelKw |-> FALSE, ralphKw |-> FALSE, ultraworkKw |-> FALSE]}
  \cup [emptyPrompt : {FALSE}, cancelKw : BOOLEAN, ralphKw : BOOLEAN, ultraworkKw : BOOLEAN]

NoPath == [hasPath |-> FALSE, dir |-> "", ext |-> ""]

PromptEvent == \E prompt \in Prompts, sid \in SessionIds : KeywordDetector(prompt, sid)

StopEvent ==
  \E userRequested \in BOOLEAN, stopReason \in {"", "context_limit"}, sid \in SessionIds :
    PersistentMode(userRequested, stopReason, sid)

\* omcsa switch, the third party not being installed
SwitchCommand == \E modeArg \in InstallModes : runSwitch(modeArg, NotDetected)

InitPersistent ==
  /\ InitFiles
  /\ config \in [workflows : {<<>>}, maxIterations : MaxIterationsConfigs,
                 delegationEnforcement : {""}, maturityMode : {""}, outputMode : {""}]

NextPersistent == PromptEvent \/ StopEvent \/ SwitchCommand \/ runCancel

SpecPersistent == InitPersistent /\ [][NextPersistent]_vars

\* all four hooks with the commands that change what they read
WriteEvent ==
  \E tool \in {"Edit", "Read"},
     path \in {NoPath, [hasPath |-> TRUE, dir |-> "src", ext |-> ".ts"],
               [hasPath |-> TRUE, dir |-> "", ext |-> ".md"]} :
    PreToolUse(tool, path)

DelegationEvent == \E agent \in Agents, sid \in {"", "s1"} : PostToolUse("Task", agent, sid)

Init ==
  /\ InitFiles
  /\ config \in [workflows : {WorkflowsOf(<< <<"a", "b">> >>)},
                 maxIterations : {MaxConfigIterations},
                 delegationEnforcement : {"", "strict"},
                 maturityMode : {""}, outputMode : {""}]

Next ==
  \/ PromptEvent
  \/ StopEvent
  \/ WriteEvent
  \/ DelegationEvent
  \/ SwitchCommand
  \/ runCancel

Spec == Init /\ [][Next]_vars

\* the pre-tool-use hook under every enforcement level and every mode
DelegationTools == WRITE_EDIT_TOOLS \cup {"Read", "Task"}

DelegationPaths ==
  {NoPath} \cup [hasPath : {TRUE}, dir : {"src", ".claude", ""}, ext : {".ts", ".py", ".md", ".txt"}]

ToolEvent == \E tool \in DelegationTools, path \in DelegationPaths : PreToolUse(tool, path)

InitDelegation ==
  /\ InitFiles
  /\ config \in [workflows : {<<>>}, maxIterations : {0},
                 delegationEnforcement : EnforcementConfigs,
                 maturityMode : {""}, outputMode : {""}]

NextDelegation == ToolEvent \/ PreToolUseUnparseable \/ SwitchCommand

SpecDelegation == InitDelegation /\ [][NextDelegation]_vars

\* the two operations on the host document, applied to any small document
MaxDocumentLen == 3

MaxUpdatedLen == 8

HostTokens == {"x", Newline, OMCSA_MARKER_START, OMCSA_MARKER_END}

HostDocuments == UNION {[1..n -> HostTokens] : n \in 0..MaxDocumentLen}

GeneratedSections ==
  {generateImportReference,
   generateOrchestratorPrompt(<<>>, [omcDetected |-> FALSE, maturityLevel |-> "HIGH",
                                     mode |-> "standalone"])}

\* writeFileSync(claudeMdPath, updateClaudeMdContent(existingContent, section))
UpdateSection(section) ==
  /\ Len(ReadOrEmpty(claudeMd)) <= MaxUpdatedLen
  /\ event' = [NoEvent EXCEPT !.hook = "update", !.section = section]
  /\ output' = Message("updated")
  /\ claudeMd' = <<updateClaudeMdContent(ReadOrEmpty(claudeMd), section)>>
  /\ UNCHANGED <<modeFile, config, ralphState, ultraworkState, workflowState,
                 externalFile, agentDirs, globalSettings, omcBackup>>

\* writeFileSync(claudeMdPath, removeOmcsaSection(content))
RemoveSection ==
  /\ claudeMd # Absent
  /\ Len(claudeMd[1]) <= MaxUpdatedLen
  /\ event' = [NoEvent EXCEPT !.hook = "remove"]
  /\ output' = Message("removed")
  /\ claudeMd' = <<removeOmcsaSection(claudeMd[1])>>
  /\ UNCHANGED <<modeFile, config, ralphState, ultraworkState, workflowState,
                 externalFile, agentDirs, globalSettings, omcBackup>>

UpdateAnySection == \E section \in GeneratedSections : UpdateSection(section)

InitDocument ==
  /\ InitState
  /\ config = DefaultConfig
  /\ claudeMd \in {Absent} \cup {<<d>> : d \in HostDocuments}
  /\ externalFile = Absent
  /\ agentDirs = NoAgentDirs
  /\ globalSettings = Absent
  /\ omcBackup = Absent

NextDocument == UpdateAnySection \/ RemoveSection

SpecDocument == InitDocument /\ [][NextDocument]_vars

\* the commands that resolve and persist the install mode
ModeArgs == {""} \cup InstallModes \cup {"bogus"}

MaturityArgs == {"", "auto", "full", "HIGH", "bogus"}

InitCommand ==
  \E modeArg \in ModeArgs, omcResult \in OmcResults, dryRun \in BOOLEAN :
    runInit(modeArg, "", "", omcResult, dryRun)

InitMaturityCommand ==
  \E maturityArg \in MaturityArgs \ {""} : runInit("", maturityArg, "", NotDetected, FALSE)

SwitchAnyCommand ==
  \E modeArg \in ModeArgs \ {""}, omcResult \in OmcResults : runSwitch(modeArg, omcResult)

ApplyCommand ==
  \E maturityArg \in MaturityArgs, dryRun \in BOOLEAN :
    runApply(maturityArg, "", NotDetected, dryRun)

RefreshCommand == \E maturityArg \in MaturityArgs : runRefresh(maturityArg, NotDetected)

\* an agent file without frontmatter
PlainAgentFile(file) ==
  [file |-> file, name |-> "", category |-> "", keywords |-> {}, readable |-> TRUE]

\* one project agent, no global agent
OneAgentDirs == [global |-> <<>>, project |-> <<PlainAgentFile("a")>>]

InitMode ==
  /\ InitState
  /\ claudeMd = Absent
  /\ externalFile = Absent
  /\ agentDirs \in {NoAgentDirs, OneAgentDirs}
  /\ globalSettings = Absent
  /\ omcBackup = Absent
  /\ config = DefaultConfig

NextMode ==
  \/ InitCommand
  \/ InitMaturityCommand
  \/ SwitchAnyCommand
  \/ ApplyCommand
  \/ RefreshCommand

SpecMode == InitMode /\ [][NextMode]_vars

\* init, apply and refresh run again and again on one user-authored document:
\* an empty one, ones that reach each maturity level, ones with blank lines
UserDocuments ==
  {<<>>,
   <<"a">>,
   <<Newline, "wf3">>,
   <<"a", Newline, Newline, Newline, "wf3">>,
   <<"a", "wf2", "wf3", "wf4", Newline, "tt2", "tt3">>}

DetectedOrNot == {NotDetected, CHOOSE r \in OmcResults : r.found}

InitAgain ==
  \E modeArg \in {"", "integrated"}, outputArg \in {"", "inline"},
     omcResult \in DetectedOrNot :
    runInit(modeArg, "", outputArg, omcResult, FALSE)

ApplyAgain ==
  \E maturityArg \in {"", "HIGH"}, omcResult \in DetectedOrNot, dryRun \in BOOLEAN :
    runApply(maturityArg, "", omcResult, dryRun)

RefreshAgain == \E omcResult \in DetectedOrNot : runRefresh("", omcResult)

SwitchOmcOnly == runSwitch("omc-only", NotDetected)

InitCommands ==
  /\ InitState
  /\ config = DefaultConfig
  /\ claudeMd \in {Absent} \cup {<<d>> : d \in UserDocuments}
  /\ externalFile = Absent
  /\ agentDirs = OneAgentDirs
  /\ globalSettings = Absent
  /\ omcBackup = Absent

NextCommands == InitAgain \/ ApplyAgain \/ RefreshAgain \/ SwitchOmcOnly

SpecCommands == InitCommands /\ [][NextCommands]_vars

\* the maturity analysis of documents with every number of matches per signal
MaxAgents == 3

AgentFileNames == <<"a", "b", "c", "d">>

WorkflowPhrases == <<"wf1", "wf2", "wf3", "wf4">>

TaskToolPhrases == <<"tt1", "tt2", "tt3", "tt4">>

DelegationPhrases == <<"dp1", "dp2", "dp3">>

RECURSIVE ProjectAgents(_)
ProjectAgents(n) ==
  IF n = 0 THEN <<>>
  ELSE ProjectAgents(n - 1) \o <<parseAgentFile(PlainAgentFile(AgentFileNames[n]), "project")>>

\* a document that names the first `referenced` agents and holds the given
\* numbers of phrases
DocumentWith(referenced, workflow, taskTool, delegation, import) ==
  SubSeq(AgentFileNames, 1, referenced)
    \o SubSeq(WorkflowPhrases, 1, workflow)
    \o SubSeq(TaskToolPhrases, 1, taskTool)
    \o SubSeq(DelegationPhrases, 1, delegation)
    \o (IF import THEN <<ImportDirective>> ELSE <<>>)

\* analyzeMaturity(cleanedContent, agents) on the document and the agents drawn
AnalyzeMaturity ==
  LET result == analyzeMaturity(event.section, output.agents)
  IN /\ event.hook = "document"
     /\ event' = [event EXCEPT !.hook = "analyze"]
     /\ output' = [Message("analysed") EXCEPT !.agents = output.agents,
                                             !.score = result.score,
                                             !.scale = result.scale,
                                             !.level = result.level]
     /\ UNCHANGED <<modeFile, config, ralphState, ultraworkState, workflowState, installFiles>>

InitMaturity ==
  /\ modeFile = Absent
  /\ ralphState = Absent
  /\ ultraworkState = Absent
  /\ workflowState = Absent
  /\ config = DefaultConfig
  /\ claudeMd = Absent
  /\ externalFile = Absent
  /\ agentDirs = NoAgentDirs
  /\ globalSettings = Absent
  /\ omcBackup = Absent
  /\ \E total \in 0..MaxAgents, workflow \in 0..Len(WorkflowPhrases),
        taskTool \in 0..Len(TaskToolPhrases), delegation \in 0..Len(DelegationPhrases),
        import \in BOOLEAN :
       \E referenced \in 0..total :
         /\ event = [NoEvent EXCEPT !.hook = "document",
                                    !.section = DocumentWith(referenced, workflow, taskTool,
                                                             delegation, import)]
         /\ output = [Yield EXCEPT !.agents = ProjectAgents(total)]

NextMaturity == AnalyzeMaturity

SpecMaturity == InitMaturity /\ [][NextMaturity]_vars

\* the scan of two agent directories that hold any files
MaxDirFiles == 2

AgentFiles ==
  [file : {"a", "b"}, name : {"", "b"}, category : {"", "qa"}, keywords : {{}},
   readable : BOOLEAN]

\* the listings of a directory: no two entries have the same file name
DirListings ==
  {d \in UNION {[1..n -> AgentFiles] : n \in 0..MaxDirFiles} :
     \A i, j \in 1..Len(d) : i # j => d[i].file # d[j].file}

InitScan ==
  /\ InitState
  /\ config = DefaultConfig
  /\ claudeMd = Absent
  /\ externalFile = Absent
  /\ agentDirs \in [global : DirListings, project : DirListings]
  /\ globalSettings = Absent
  /\ omcBackup = Absent

NextScan == ScanAgents

SpecScan == InitScan /\ [][NextScan]_vars

\* the scan of one agent file with any category key and any keywords
ExplicitCategories == {"", "qa", "QA", "Review", "dev", "other", "bogus", "constructor"}

KeywordClasses == {"testing", "review", "exploration", "implementation"}

InitCategory ==
  /\ InitState
  /\ config = DefaultConfig
  /\ claudeMd = Absent
  /\ externalFile = Absent
  /\ \E category \in ExplicitCategories, keywords \in SUBSET KeywordClasses :
       agentDirs = [global |-> <<>>,
                    project |-> <<[file |-> "a", name |-> "", category |-> category,
                                   keywords |-> keywords, readable |-> TRUE]>>]
  /\ globalSettings = Absent
  /\ omcBackup = Absent

NextCategory == ScanAgents

SpecCategory == InitCategory /\ [][NextCategory]_vars

\* the plugin disabled and restored on any small settings file
MaxPlugins == 2

PluginEntries == {"oh-my-claudecode@omc", "Oh-My-ClaudeCode", "other-plugin"}

SettingsFiles ==
  {Absent,
   <<[parses |-> FALSE, hasPlugins |-> FALSE, enabledPlugins |-> <<>>]>>,
   <<[parses |-> TRUE, hasPlugins |-> FALSE, enabledPlugins |-> <<>>]>>}
  \cup {<<[parses |-> TRUE, hasPlugins |-> TRUE, enabledPlugins |-> plugins]>> :
          plugins \in UNION {[1..n -> PluginEntries] : n \in 0..MaxPlugins}}

OmcDisable == \E backupFails, writeFails \in BOOLEAN : runOmcDisable(backupFails, writeFails)

OmcEnable == \E writeFails \in BOOLEAN : runOmcEnable(writeFails)

InitOmc ==
  /\ InitState
  /\ config = DefaultConfig
  /\ claudeMd = Absent
  /\ externalFile = Absent
  /\ agentDirs = NoAgentDirs
  /\ globalSettings \in SettingsFiles
  /\ omcBackup = Absent

NextOmc == OmcDisable \/ OmcEnable

SpecOmc == InitOmc /\ [][NextOmc]_vars

(* --------------------------- workflow generator ----------------------- *)

CATEGORY_ORDER == <<"exploration", "implementation", "other", "review", "testing">>

\* byCategory.get(cat) || []
ByCategory(agents, cat) == SelectSeq(agents, LAMBDA a : a.category = cat)

AgentNames(agents) == [i \in 1..Len(agents) |-> agents[i].name]

RECURSIVE InCategoryOrder(_, _)
InCategoryOrder(agents, cats) ==
  IF cats = <<>> THEN <<>>
  ELSE AgentNames(ByCategory(agents, Head(cats))) \o InCategoryOrder(agents, Tail(cats))

\* the suggested workflows in the insertion order of the returned object
generateSuggestedWorkflows(agents) ==
  LET implAgents == ByCategory(agents, "implementation")
      reviewAgents == ByCategory(agents, "review")
      testAgents == ByCategory(agents, "testing")
      exploreAgents == ByCategory(agents, "exploration")
      otherAgents == ByCategory(agents, "other")
      hasPostSteps == Len(reviewAgents) > 0 \/ Len(testAgents) > 0
                      \/ Len(exploreAgents) > 0 \/ Len(otherAgents) > 0
      stepsOf(impl) ==
        (IF Len(exploreAgents) > 0 THEN <<exploreAgents[1].name>> ELSE <<>>)
        \o <<impl.name>> \o AgentNames(otherAgents) \o AgentNames(reviewAgents)
        \o AgentNames(testAgents)
      nameOf(impl) == IF Len(implAgents) = 1 THEN "default" ELSE impl.name \o "-flow"
      distinctCategories == {agents[i].category : i \in 1..Len(agents)}
  IN IF Len(agents) < 2 THEN <<>>
     ELSE IF Len(implAgents) > 0
     THEN IF ~hasPostSteps THEN <<>>
          ELSE [i \in 1..Len(implAgents) |->
                  [name |-> nameOf(implAgents[i]), steps |-> stepsOf(implAgents[i])]]
     ELSE IF Cardinality(distinctCategories) < 2 THEN <<>>
     ELSE <<[name |-> "default", steps |-> InCategoryOrder(agents, CATEGORY_ORDER)]>>

\* config.workflows[name] = wf: an existing key keeps its place in the
\* enumeration order, a new key is enumerated last
SetWorkflow(workflows, wf) ==
  IF \E i \in 1..Len(workflows) : workflows[i].name = wf.name
  THEN [i \in 1..Len(workflows) |->
          IF workflows[i].name = wf.name THEN wf ELSE workflows[i]]
  ELSE Append(workflows, wf)

RECURSIVE SetWorkflows(_, _)
SetWorkflows(workflows, added) ==
  IF added = <<>> THEN workflows
  ELSE SetWorkflows(SetWorkflow(workflows, Head(added)), Tail(added))

\* reapplyPrompt: the section regenerated inline from the config just written
reapplyPrompt(cfg, omcResult) ==
  LET agents == scanAgents(agentDirs) IN
  IF agents = <<>> THEN claudeMd
  ELSE <<RegeneratePrompt(ReadOrEmpty(claudeMd), agents, cfg, CurrentMode(modeFile),
                          omcResult, "", "inline").updatedContent>>

\* omcsa workflow add all (the config carries no agent overrides)
runWorkflowAddAll(omcResult) ==
  LET discoveredAgents == scanAgents(agentDirs)
      suggested == generateSuggestedWorkflows(discoveredAgents)
      written == [config EXCEPT !.workflows = SetWorkflows(@, suggested)]
  IN /\ event' = CommandEvent("workflow-add", "", "", "", omcResult, FALSE)
     /\ IF discoveredAgents = <<>>
        THEN /\ output' = Message("no-agents")
             /\ UNCHANGED <<config, claudeMd>>
        ELSE IF suggested = <<>>
        THEN /\ output' = Message("cannot-generate")
             /\ UNCHANGED <<config, claudeMd>>
        ELSE /\ output' = [Message("workflows-generated") EXCEPT !.n = Len(suggested)]
             /\ config' = written
             /\ claudeMd' = reapplyPrompt(written, omcResult)
     /\ UNCHANGED <<modeFile, ralphState, ultraworkState, workflowState,
                    externalFile, agentDirs, globalSettings, omcBackup>>

\* the top-level keys of omcsa.config.json as writeConfig serialises the
\* config: the defaults merged by loadConfig, and the keys that are defined
WrittenConfigKeys(cfg) ==
  {"features", "keywords", "persistence"}
  \cup (IF cfg.maturityMode # "" THEN {"maturity"} ELSE {})
  \cup (IF cfg.workflows # <<>> THEN {"workflows"} ELSE {})

validKeys == {"agents", "features", "keywords", "persistence", "maturity", "omcAgents"}

\* the doctor's check of the keys of a config file that parses
checkConfigFile(keys) ==
  IF keys \ validKeys # {} THEN Message("config-unknown-keys") ELSE Message("config-valid")

\* omcsa doctor, its config-file check, on the file the tool wrote
runDoctor ==
  /\ event' = [NoEvent EXCEPT !.hook = "doctor"]
  /\ output' = checkConfigFile(WrittenConfigKeys(config))
  /\ UNCHANGED <<modeFile, config, ralphState, ultraworkState, workflowState, installFiles>>

\* the agent files of a project, each declaring its category, in any order
GeneratorAgentNames == {"a", "b", "c"}

GeneratorAgentFiles ==
  [file : GeneratorAgentNames, name : {""}, category : AgentCategories,
   keywords : {{}}, readable : {TRUE}]

GeneratorListings ==
  {d \in UNION {[1..n -> GeneratorAgentFiles] : n \in 0..Cardinality(GeneratorAgentNames)} :
     \A i, j \in 1..Len(d) : i # j => d[i].file # d[j].file}

InitGenerator ==
  /\ InitState
  /\ config = DefaultConfig
  /\ claudeMd = Absent
  /\ externalFile = Absent
  /\ agentDirs \in [global : {<<>>}, project : GeneratorListings]
  /\ globalSettings = Absent
  /\ omcBackup = Absent

WorkflowAddAll == runWorkflowAddAll(NotDetected)

GeneratedTaskEvent == \E agent \in GeneratorAgentNames : PostToolUse("Task", agent, "s1")

NextGenerator == WorkflowAddAll \/ GeneratedTaskEvent \/ runCancel \/ runDoctor

SpecGenerator == InitGenerator /\ [][NextGenerator]_vars

\* the hooks on a mode.json of any content: absent, not parseable, without a
\* mode field, with a value outside the three modes, or with one of them
ModeRecords ==
  {Absent} \cup
  {<<[saveMode(m, NotDetected)[1] EXCEPT !.parses = p, !.mode = m]>> :
     p \in BOOLEAN, m \in {"", "bogus"} \cup InstallModes}

InitModeRecord ==
  /\ modeFile \in ModeRecords
  /\ ralphState = Absent
  /\ ultraworkState = Absent
  /\ workflowState = Absent
  /\ event = NoEvent
  /\ output = Yield
  /\ claudeMd = Absent
  /\ externalFile = Absent
  /\ agentDirs = NoAgentDirs
  /\ globalSettings = Absent
  /\ omcBackup = Absent
  /\ config \in [workflows : {<<>>}, maxIterations : {MaxConfigIterations},
                 delegationEnforcement : {"", "strict"},
                 maturityMode : {""}, outputMode : {""}]

NextModeRecord == PromptEvent \/ StopEvent \/ WriteEvent

SpecModeRecord == InitModeRecord /\ [][NextModeRecord]_vars

\* one keyword activation by a session, then stop events of that session only
ActivateOnce ==
  /\ event.hook = "none"
  /\ \E ralphKw \in BOOLEAN :
       KeywordDetector([emptyPrompt |-> FALSE, cancelKw |-> FALSE, ralphKw |-> ralphKw,
                        ultraworkKw |-> TRUE], "s1")

OwnStop ==
  /\ event.hook # "none"
  /\ \E userRequested \in BOOLEAN, stopReason \in {"", "context_limit"} :
       PersistentMode(userRequested, stopReason, "s1")

InitCeiling == InitPersistent

NextCeiling == ActivateOnce \/ OwnStop

SpecCeiling == InitCeiling /\ [][NextCeiling]_vars

(* ------------------------------- properties --------------------------- *)

RunActive == workflowState # Absent /\ workflowState[1].active

IsTaskEvent(e) == e.hook = "post-tool-use" /\ e.tool = "Task"

\* the workflows of the configuration whose step 0 is the agent
StartsWith(agent) ==
  {i \in 1..Len(config.workflows) :
     Len(config.workflows[i].steps) >= 1 /\ config.workflows[i].steps[1] = agent}

\* C1: while a run is active, a Task event whose agent is not
\* steps[currentStepIndex] leaves the run state unchanged, emits no advisory
\* and starts no run of any other workflow.
C1_OutOfOrderIsInert ==
  [][(/\ RunActive
      /\ IsTaskEvent(event')
      /\ event'.agent # At(workflowState[1].steps, workflowState[1].currentStepIndex))
     => (workflowState' = workflowState /\ output' = Yield)]_vars

\* an out-of-order Task event, for an agent that is step 0 of another
\* configured workflow, has been handled during a run of two or more steps
C1_Witness ==
  /\ RunActive
  /\ IsTaskEvent(event)
  /\ output = Yield
  /\ Len(workflowState[1].steps) >= 2
  /\ event.agent # At(workflowState[1].steps, workflowState[1].currentStepIndex)
  /\ \E i \in StartsWith(event.agent) :
       config.workflows[i].name # workflowState[1].workflowName

\* C2: no persisted active run state has currentStepIndex equal to or greater
\* than the number of its steps (the run file is deleted on completion).
C2_NoCompletedRunPersists ==
  RunActive => workflowState[1].currentStepIndex < Len(workflowState[1].steps)

\* C3: with no active run, a Task event whose agent is step 0 of some
\* configured workflow creates the run state of the first such workflow in
\* enumeration order, with currentStepIndex = 1 and completedSteps = [agent];
\* the advisory names steps[1] when there is one, and there is none otherwise.
C3_FirstMatchStarts ==
  [][(/\ ~RunActive
      /\ IsTaskEvent(event')
      /\ StartsWith(event'.agent) # {})
     => \E i \in StartsWith(event'.agent) :
          /\ \A j \in StartsWith(event'.agent) : i <= j
          /\ Len(workflowState') = 1
          /\ workflowState'[1].active
          /\ workflowState'[1].workflowName = config.workflows[i].name
          /\ workflowState'[1].steps = config.workflows[i].steps
          /\ workflowState'[1].currentStepIndex = 1
          /\ workflowState'[1].completedSteps = <<event'.agent>>
          /\ IF Len(config.workflows[i].steps) > 1
             THEN /\ output'.kind = "workflow-started"
                  /\ output'.wf = config.workflows[i].name
                  /\ output'.next = config.workflows[i].steps[2]
             ELSE output' = Yield]_vars

\* a run was started by an agent that is step 0 of two configured workflows
\* with different step lists
C3_Witness ==
  /\ RunActive
  /\ IsTaskEvent(event)
  /\ output.kind = "workflow-started"
  /\ workflowState[1].currentStepIndex = 1
  /\ \E i, j \in StartsWith(event.agent) :
       config.workflows[i].steps # config.workflows[j].steps

\* the k-th in-order observation of workflow w, as the claim describes it
InOrderObservation(w) ==
  /\ (~RunActive /\ event'.agent = At(w.steps, 0))
       => /\ workflowState' # Absent
          /\ workflowState'[1].currentStepIndex = 1
          /\ output'.kind = "workflow-started"
          /\ output'.next = At(w.steps, 1)
  /\ (/\ RunActive
      /\ workflowState[1].currentStepIndex < Len(w.steps)
      /\ workflowState[1].completedSteps
           = SubSeq(w.steps, 1, workflowState[1].currentStepIndex)
      /\ event'.agent = At(w.steps, workflowState[1].currentStepIndex))
       => IF workflowState[1].currentStepIndex + 1 < Len(w.steps)
          THEN /\ workflowState' # Absent
               /\ workflowState'[1].currentStepIndex
                    = workflowState[1].currentStepIndex + 1
               /\ output'.kind = "workflow-step"
               /\ output'.next = At(w.steps, workflowState[1].currentStepIndex + 1)
          ELSE /\ workflowState' = Absent
               /\ output'.kind = "workflow-complete"

\* C4 as stated: the in-order observations of ANY configured workflow with
\* two or more steps persist currentStepIndex = k with an advisory naming
\* steps[k], and the last one completes and deletes the run.  (Taken over the
\* configurations without one-step workflows, whose runs C2 is about.)
C4_AnyWorkflowAdvances ==
  [][(IsTaskEvent(event')
      /\ \A j \in 1..Len(config.workflows) : Len(config.workflows[j].steps) # 1)
     => \A i \in 1..Len(config.workflows) :
          Len(config.workflows[i].steps) >= 2
            => InOrderObservation(config.workflows[i])]_vars

\* C4 as amended: the same, for the workflow the run belongs to, which is the
\* first workflow in enumeration order whose step 0 is the observed agent.
C4_RunWorkflowAdvances ==
  [][IsTaskEvent(event')
     => /\ \A i \in StartsWith(event'.agent) :
             ((\A j \in StartsWith(event'.agent) : i <= j)
              /\ Len(config.workflows[i].steps) >= 2)
               => /\ InOrderObservation(config.workflows[i])
                  /\ ~RunActive => workflowState'[1].steps = config.workflows[i].steps
        /\ (RunActive /\ Len(workflowState[1].steps) >= 2)
             => /\ InOrderObservation(workflowState[1])
                /\ (workflowState' # Absent
                      => workflowState'[1].steps = workflowState[1].steps)
        /\ (output'.kind = "workflow-complete"
              => (workflowState' = Absent /\ output'.pipeline = workflowState[1].steps))]_vars

\* the last step of a workflow of three or more steps has just been observed
C4_Witness ==
  /\ IsTaskEvent(event)
  /\ output.kind = "workflow-complete"
  /\ output.total >= 3
  /\ workflowState = Absent

\* mode.json exists, parses and records the mode m
Records(m) == modeFile # Absent /\ modeFile[1].parses /\ modeFile[1].mode = m

Yielding == Records("omc-only") \/ Records("integrated")

StandaloneRecorded == modeFile = Absent \/ Records("standalone")

\* the standalone logic of the hook that handles event e shows in its result
StandaloneLogicRan(e) ==
  /\ (e.hook = "keyword-detector" /\ ~e.emptyPrompt /\ e.cancelKw)
       => (output'.kind = "cancelled" /\ ralphState' = Absent /\ ultraworkState' = Absent)
  /\ (e.hook = "keyword-detector" /\ ~e.emptyPrompt /\ ~e.cancelKw /\ e.ralphKw)
       => (output'.kind = "ralph-activated" /\ ralphState' # Absent /\ ultraworkState' # Absent)
  /\ (e.hook = "keyword-detector" /\ ~e.emptyPrompt /\ ~e.cancelKw /\ ~e.ralphKw
      /\ e.ultraworkKw)
       => (output'.kind = "ultrawork-activated" /\ ultraworkState' # Absent)
  /\ (e.hook = "persistent-mode" /\ ~e.userRequested /\ e.stopReason = ""
      /\ ralphState # Absent /\ ralphState[1].sessionId = e.sessionId)
       => (output'.kind \in {"ralph-continuation", "ralph-stopped"}
           /\ ralphState' # ralphState)
  /\ (e.hook = "pre-tool-use" /\ e.tool \in WRITE_EDIT_TOOLS /\ e.hasPath
      /\ e.dir = "src" /\ e.ext = ".ts")
       => IF config.delegationEnforcement = "strict"
          THEN ~output'.continue /\ output'.kind = "delegation-blocked"
          ELSE output'.continue /\ output'.kind = "delegation-reminder"

\* C5: the keyword-detector, stop and pre-tool-use hooks run their standalone
\* logic when mode.json is absent or records standalone; when it records
\* omc-only or integrated their output is exactly {continue: true} and no
\* persistent-mode state file is created, modified or deleted.
C5_HooksYieldByMode ==
  [][event'.hook \in {"keyword-detector", "persistent-mode", "pre-tool-use"}
     => /\ Yielding => (/\ output' = Yield
                        /\ ralphState' = ralphState
                        /\ ultraworkState' = ultraworkState)
        /\ StandaloneRecorded => StandaloneLogicRan(event')]_vars

\* a stop event of the owning session was passed through in integrated mode
\* while a ralph state below its ceiling exists
C5_Witness ==
  /\ Records("integrated")
  /\ event.hook = "persistent-mode"
  /\ ~event.userRequested
  /\ event.stopReason = ""
  /\ ralphState # Absent
  /\ ralphState[1].sessionId = event.sessionId
  /\ ralphState[1].iteration < ralphState[1].maxIterations
  /\ output = Yield

\* C6: when the persisted mode is omc-only or integrated, the post-tool-use
\* hook does not create, advance or delete the workflow run state and emits
\* no workflow advisory.
C6_PostToolUseYields ==
  [][(IsTaskEvent(event') /\ Yielding)
     => (workflowState' = workflowState /\ output' = Yield)]_vars

\* the persistent-mode state files that exist
PersistedStates == {f[1] : f \in {ralphState, ultraworkState} \ {Absent}}

\* the state file the Stop hook handles: ralph if active, otherwise ultrawork
Handled == IF ralphState # Absent /\ ralphState[1].active THEN ralphState ELSE ultraworkState

\* the session of a hook input with session id sid created the state: a
\* prompt without a session id creates its states as 'cli-session'
Owns(sid, st) == st.sessionId = (IF sid = "" THEN "cli-session" ELSE sid)

\* a stop event e that the hook's persistence logic handles for its owner
OwnersStop(e) ==
  /\ e.hook = "persistent-mode"
  /\ StandaloneRecorded
  /\ ~e.userRequested
  /\ e.stopReason # "context_limit"
  /\ Handled # Absent
  /\ Handled[1].active
  /\ Owns(e.sessionId, Handled[1])

\* C7: keyword detection creates a state with iteration = 1; each stop event
\* of the owning session that the Stop hook handles (not user-requested, not a
\* context-limit stop; the hook handles ralph if active, otherwise ultrawork,
\* and handles no state when it yields) increments the handled state's
\* iteration by exactly 1 and injects a continuation while iteration <
\* maxIterations, and deletes it without continuation once iteration >=
\* maxIterations; every persisted state with maxIterations >= 1 has
\* 1 <= iteration <= maxIterations.
C7_IterationLifecycle ==
  /\ [][/\ (event'.hook = "keyword-detector" /\ output'.kind = "ralph-activated")
             => /\ ralphState' # Absent /\ ralphState'[1].iteration = 1
                /\ ultraworkState' # Absent /\ ultraworkState'[1].iteration = 1
        /\ (event'.hook = "keyword-detector" /\ output'.kind = "ultrawork-activated")
             => /\ ultraworkState' # Absent /\ ultraworkState'[1].iteration = 1
                /\ ralphState' = ralphState
        /\ OwnersStop(event')
             => LET h == Handled[1]
                    handled == IF Handled = ralphState THEN ralphState' ELSE ultraworkState'
                    other == IF Handled = ralphState
                             THEN ultraworkState' = ultraworkState
                             ELSE ralphState' = ralphState
                IN /\ other
                   /\ IF h.iteration < h.maxIterations
                      THEN /\ handled = <<[h EXCEPT !.iteration = h.iteration + 1]>>
                           /\ output'.kind = h.mode \o "-continuation"
                           /\ output'.n = h.iteration + 1
                      ELSE /\ handled = Absent
                           /\ output'.kind = h.mode \o "-stopped"]_vars
  /\ [](\A st \in PersistedStates :
          st.maxIterations >= 1 => (1 <= st.iteration /\ st.iteration <= st.maxIterations))

\* the ultrawork state, handled after the ralph state was deleted at its
\* ceiling, has been incremented up to its own ceiling
C7_Witness ==
  /\ event.hook = "persistent-mode"
  /\ output.kind = "ultrawork-continuation"
  /\ ralphState = Absent
  /\ ultraworkState # Absent
  /\ ultraworkState[1].iteration = ultraworkState[1].maxIterations
  /\ ultraworkState[1].iteration >= 2

\* a stop event in standalone mode leaves state file f, owned by a session
\* other than sid, alone and produces no message from it
IgnoredBy(f, f2, e) ==
  /\ f2 = f
  /\ output'.kind \notin {f[1].mode \o "-continuation", f[1].mode \o "-stopped"}

\* C8 as stated: on a stop event in standalone mode an active state whose
\* session id differs from the event's session id is neither incremented nor
\* deleted, and no continuation is produced from it.
C8_DifferentSessionIgnored ==
  [][(event'.hook = "persistent-mode" /\ StandaloneRecorded)
     => /\ (ralphState # Absent /\ ralphState[1].sessionId # event'.sessionId)
             => IgnoredBy(ralphState, ralphState', event')
        /\ (ultraworkState # Absent /\ ultraworkState[1].sessionId # event'.sessionId)
             => IgnoredBy(ultraworkState, ultraworkState', event')]_vars

\* C8 as amended: the same, when the stop event carries a session id.
C8_OtherSessionIgnored ==
  [][(event'.hook = "persistent-mode" /\ StandaloneRecorded /\ event'.sessionId # "")
     => /\ (ralphState # Absent /\ ralphState[1].sessionId # event'.sessionId)
             => IgnoredBy(ralphState, ralphState', event')
        /\ (ultraworkState # Absent /\ ultraworkState[1].sessionId # event'.sessionId)
             => IgnoredBy(ultraworkState, ultraworkState', event')]_vars

\* a stop event of session s (neither user-requested nor a context-limit stop)
\* met a ralph state of another session, below its ceiling, and passed through
C8_Witness ==
  /\ StandaloneRecorded
  /\ event.hook = "persistent-mode"
  /\ ~event.userRequested
  /\ event.stopReason = ""
  /\ event.sessionId # ""
  /\ ralphState # Absent
  /\ ralphState[1].sessionId # event.sessionId
  /\ ralphState[1].iteration < ralphState[1].maxIterations
  /\ output = Yield

\* C9: after omcsa cancel, and after a prompt containing a cancel keyword in
\* standalone mode, no ralph, ultrawork or workflow run state file remains.
C9_CancelClearsEverything ==
  (\/ event.hook = "cancel"
   \/ (event.hook = "keyword-detector" /\ ~event.emptyPrompt /\ event.cancelKw
       /\ StandaloneRecorded))
    => (ralphState = Absent /\ ultraworkState = Absent /\ workflowState = Absent)

\* C10: init's mode resolution uses an explicitly supplied mode verbatim and
\* otherwise standalone, whether or not the third party is detected; it gives
\* an advisory exactly when the third party is detected and the mode resolved
\* is standalone.
C10_ModeResolution ==
  (event.hook = "init" /\ output.kind \in {"setup-complete", "dry-run"})
    => /\ event.modeArg # "" => output.mode = event.modeArg
       /\ event.modeArg = "" => output.mode = "standalone"
       /\ (output.next # "") <=> (event.omcFound /\ output.mode = "standalone")
       /\ output.kind = "setup-complete" => Records(output.mode)

\* init without --mode, the third party detected: standalone, with an advisory
C10_Witness ==
  /\ event.hook = "init"
  /\ output.kind = "setup-complete"
  /\ event.modeArg = ""
  /\ event.omcFound
  /\ output.mode = "standalone"
  /\ output.next # ""
  /\ Records("standalone")

\* the files a command can write
CommandFiles == <<modeFile, config, claudeMd, externalFile>>

ValidMaturityArgs == {"auto", "full", "LOW", "MEDIUM", "HIGH"}

\* the command handling event e was given an install mode or a maturity level
\* outside its enumeration
InvalidEnum(e) ==
  \/ e.hook \in {"init", "switch"} /\ e.modeArg # "" /\ ~isValidMode(e.modeArg)
  \/ e.hook \in {"init", "apply", "refresh"} /\ e.maturityArg # ""
       /\ e.maturityArg \notin ValidMaturityArgs

\* C11: a command given an invalid install mode (init --mode, switch) or an
\* invalid maturity level (init/apply/refresh --maturity) sets a non-zero exit
\* code and writes no file.  (Taken where agents are found: a command that
\* finds no agent returns before it looks at its options.)
C11_InvalidEnumRejected ==
  [][(InvalidEnum(event') /\ (event'.hook = "switch" \/ scanAgents(agentDirs) # <<>>))
     => (output'.exitCode # 0 /\ CommandFiles' = CommandFiles)]_vars

\* a write to a source file outside the allowed paths, in standalone mode
DelegatedWrite ==
  /\ event.hook = "pre-tool-use"
  /\ ~event.unparseable
  /\ StandaloneRecorded
  /\ event.tool \in {"Write", "Edit", "MultiEdit", "NotebookEdit"}
  /\ event.hasPath
  /\ event.ext \in SOURCE_EXTENSIONS
  /\ event.dir \notin {".omcsa", ".claude", ".omc", "claudedocs"}

\* C12: the pre-tool-use hook returns continue = false only in standalone mode
\* with level strict for a write/edit tool whose target has a source extension
\* and matches no allowed path; with level warn (the default) the same
\* condition gives continue = true with a reminder; with level off, another
\* tool, an allowed or empty path or unparseable input it returns exactly
\* {continue: true}.
C12_BlockOnlyStrictSourceWrite ==
  event.hook = "pre-tool-use" =>
    /\ ~output.continue => (DelegatedWrite /\ config.delegationEnforcement = "strict")
    /\ (DelegatedWrite /\ config.delegationEnforcement \in {"", "warn"})
         => (output.continue /\ output.kind = "delegation-reminder")
    /\ (\/ config.delegationEnforcement = "off"
        \/ event.tool \notin {"Write", "Edit", "MultiEdit", "NotebookEdit"}
        \/ ~event.hasPath
        \/ event.dir \in {".omcsa", ".claude", ".omc", "claudedocs"}
        \/ event.ext \in {".md", ".json", ".yml", ".yaml", ".toml", ".lock"}
        \/ event.unparseable)
         => output = Yield

\* a notebook edit of a source file was blocked after the mode was switched to
\* standalone
C12_Witness ==
  /\ Records("standalone")
  /\ config.delegationEnforcement = "strict"
  /\ event.hook = "pre-tool-use"
  /\ event.tool = "NotebookEdit"
  /\ event.dir = "src"
  /\ event.ext = ".py"
  /\ ~output.continue
  /\ output.kind = "delegation-blocked"

\* the number of occurrences of a token in a document
Occurrences(content, token) == Cardinality({i \in 1..Len(content) : content[i] = token})

\* a document without markers, or with one start marker before one end marker
WellMarked(content) ==
  \/ /\ Occurrences(content, OMCSA_MARKER_START) = 0
     /\ Occurrences(content, OMCSA_MARKER_END) = 0
  \/ /\ Occurrences(content, OMCSA_MARKER_START) = 1
     /\ Occurrences(content, OMCSA_MARKER_END) = 1
     /\ \E i, j \in 1..Len(content) :
          i < j /\ content[i] = OMCSA_MARKER_START /\ content[j] = OMCSA_MARKER_END

HasSection(content) == Occurrences(content, OMCSA_MARKER_START) = 1

\* the content before the marked region (the whole document if there is none)
\* and the content after it
BeforeRegion(content) ==
  IF HasSection(content)
  THEN SubSeq(content, 1,
              (CHOOSE i \in 1..Len(content) : content[i] = OMCSA_MARKER_START) - 1)
  ELSE content

AfterRegion(content) ==
  IF HasSection(content)
  THEN SubSeq(content, (CHOOSE j \in 1..Len(content) : content[j] = OMCSA_MARKER_END) + 1,
              Len(content))
  ELSE <<>>

\* the content left of a document once the newlines at its end are dropped
RECURSIVE WithoutFinalNewlines(_)
WithoutFinalNewlines(content) ==
  IF content # <<>> /\ content[Len(content)] = Newline
  THEN WithoutFinalNewlines(SubSeq(content, 1, Len(content) - 1))
  ELSE content

\* C13: on a document that is free of markers or holds one well-formed marked
\* region, a section update and a section removal leave all content outside the
\* region unchanged: an update keeps what stands before and after the region
\* (an append adds only its separator), a removal leaves exactly the content
\* before followed by the content after (newlines at the very end of the
\* document are not counted).
C13_OutsideRegionUnchanged ==
  [][(claudeMd # Absent /\ WellMarked(claudeMd[1]))
       => /\ (event'.hook = "update" /\ HasSection(claudeMd[1]))
               => /\ BeforeRegion(claudeMd'[1]) = BeforeRegion(claudeMd[1])
                  /\ AfterRegion(claudeMd'[1]) = AfterRegion(claudeMd[1])
          /\ (event'.hook = "update" /\ ~HasSection(claudeMd[1]))
               => /\ WithoutFinalNewlines(BeforeRegion(claudeMd'[1]))
                       = WithoutFinalNewlines(claudeMd[1])
                  /\ WithoutFinalNewlines(AfterRegion(claudeMd'[1])) = <<>>
          /\ event'.hook = "remove"
               => WithoutFinalNewlines(claudeMd'[1])
                    = WithoutFinalNewlines(BeforeRegion(claudeMd[1]) \o AfterRegion(claudeMd[1]))
    ]_vars

\* C14: updating the marked region twice in succession with the same generated
\* section gives the document that one update gives, for any host document.
C14_UpdateIdempotent ==
  [][(event.hook = "update" /\ event'.hook = "update" /\ event'.section = event.section)
       => claudeMd' = claudeMd]_vars

\* a command that analysed the document and reported its score
Analysed(e, o) ==
  /\ e.hook \in {"init", "apply", "refresh"}
  /\ o.kind \in {"setup-complete", "applied", "refreshed", "dry-run"}

GeneratedContent ==
  IF event.hook = "refresh" \/ event.outputArg = "inline" THEN claudeMd[1]
  ELSE externalFile[1]

\* C19: at each maturity level the content that init, apply or refresh
\* generates holds the directive to use only the locally registered agents (a
\* section at LOW and MEDIUM, a line at HIGH) exactly when the third party is
\* detected and the mode is standalone; it holds none in omc-only or
\* integrated mode or when the third party is not detected.
C19_ExclusivityDirective ==
  (Analysed(event, output) /\ ~event.dryRun) =>
    LET expected == event.omcFound /\ output.mode = "standalone"
        section == Occurrences(GeneratedContent, AgentExclusivity)
        line == Occurrences(GeneratedContent, AgentExclusivityLine)
    IN /\ output.maturity \in {"LOW", "MEDIUM", "HIGH"}
       /\ output.maturity = "HIGH" => (section = 0 /\ line = (IF expected THEN 1 ELSE 0))
       /\ output.maturity # "HIGH" => (line = 0 /\ section = (IF expected THEN 1 ELSE 0))

\* an apply at level HIGH, the third party detected in standalone mode, wrote
\* the directive into the external file
C19_Witness ==
  /\ event.hook = "apply"
  /\ ~event.dryRun
  /\ event.omcFound
  /\ output.kind = "applied"
  /\ output.mode = "standalone"
  /\ output.maturity = "HIGH"
  /\ externalFile # Absent
  /\ Occurrences(externalFile[1], AgentExclusivityLine) = 1

NamesIn(listing) ==
  {(IF listing[i].name # "" THEN listing[i].name ELSE listing[i].file) :
     i \in {k \in 1..Len(listing) : listing[k].readable}}

\* C17: a name that both the global and the project directory declare has
\* exactly one entry in the scan result, of scope project and with the fields
\* of a project file; no name occurs twice in the result.
C17_ProjectOverridesGlobal ==
  event.hook = "scan" =>
    LET result == output.agents IN
    /\ \A n \in NamesIn(agentDirs.global) \cap NamesIn(agentDirs.project) :
         /\ Cardinality({i \in 1..Len(result) : result[i].name = n}) = 1
         /\ \A i \in 1..Len(result) :
              result[i].name = n
                => /\ result[i].scope = "project"
                   /\ \E k \in 1..Len(agentDirs.project) :
                        /\ agentDirs.project[k].readable
                        /\ result[i] = parseAgentFile(agentDirs.project[k], "project")
    /\ \A i, j \in 1..Len(result) : i # j => result[i].name # result[j].name

\* global b.md and project a.md both declare the name b, with different
\* categories: the one entry is the project one
C17_Witness ==
  /\ event.hook = "scan"
  /\ agentDirs.global = <<[file |-> "b", name |-> "", category |-> "qa", keywords |-> {},
                           readable |-> TRUE]>>
  /\ agentDirs.project = <<[file |-> "a", name |-> "b", category |-> "", keywords |-> {},
                            readable |-> TRUE]>>
  /\ Len(output.agents) = 1
  /\ output.agents[1].scope = "project"
  /\ output.agents[1].category = "other"
  /\ output.agents[1].filePath = <<"project", "a">>

\* the file scanned and the category the scan gave its agent
ScannedFile == agentDirs.project[1]

ScannedCategory == output.agents[1].category

\* the category that the keyword classes found in name and description give,
\* in the priority order testing, review, exploration, implementation
InferredByPriority(keywords) ==
  IF "testing" \in keywords THEN ScannedCategory = "testing"
  ELSE IF "review" \in keywords THEN ScannedCategory = "review"
  ELSE IF "exploration" \in keywords THEN ScannedCategory = "exploration"
  ELSE IF "implementation" \in keywords THEN ScannedCategory = "implementation"
  ELSE ScannedCategory = "other"

\* a recognised explicit value gives the category the synonym table names
RecognisedResolved ==
  /\ ScannedFile.category \in {"qa", "QA"} => ScannedCategory = "testing"
  /\ ScannedFile.category = "Review" => ScannedCategory = "review"
  /\ ScannedFile.category = "dev" => ScannedCategory = "implementation"
  /\ ScannedFile.category = "other" => ScannedCategory = "other"

Enabled(file, p) ==
  IF file = Absent \/ ~file[1].parses \/ ~file[1].hasPlugins THEN 0
  ELSE Occurrences(file[1].enabledPlugins, p)

\* the backup write of a disable is attempted: the settings can be read and
\* list an entry of the third party
BackupAttempted ==
  /\ globalSettings # Absent
  /\ globalSettings[1].parses
  /\ globalSettings[1].hasPlugins
  /\ \E i \in 1..Len(globalSettings[1].enabledPlugins) :
       globalSettings[1].enabledPlugins[i] \in {"oh-my-claudecode@omc", "Oh-My-ClaudeCode"}

\* C20: omc disable changes the global settings only if the backup was
\* written, and the backup then holds exactly the entries removed; if the
\* settings cannot be read or the backup write fails, the settings stay as
\* they are and the command ends with a non-zero exit code.
C20_BackupBeforeMutation ==
  [][event'.hook = "omc-disable"
       => /\ globalSettings' # globalSettings
               => /\ ~event'.backupFails
                  /\ omcBackup' # Absent
                  /\ omcBackup'[1].parses
                  /\ \A p \in {"oh-my-claudecode@omc", "Oh-My-ClaudeCode", "other-plugin"} :
                       Enabled(globalSettings, p)
                         = Enabled(globalSettings', p)
                             + Occurrences(omcBackup'[1].removedPlugins, p)
          /\ (globalSettings = Absent \/ ~globalSettings[1].parses
              \/ (BackupAttempted /\ event'.backupFails))
               => (globalSettings' = globalSettings /\ output'.exitCode # 0)]_vars

\* a disable removed one third-party entry from a list that also holds another
\* plugin, and the backup holds the entry
C20_Witness ==
  /\ event.hook = "omc-disable"
  /\ output.kind = "omc-disabled"
  /\ globalSettings # Absent
  /\ globalSettings[1].enabledPlugins = <<"other-plugin">>
  /\ omcBackup # Absent
  /\ omcBackup[1].removedPlugins = <<"Oh-My-ClaudeCode">>

\* C21: after omcsa switch with a valid mode, mode.json exists, parses and
\* records that mode, also when it was absent or unparseable before.
C21_SwitchWritesMode ==
  [][(event'.hook = "switch"
      /\ event'.modeArg \in {"standalone", "omc-only", "integrated"})
       => /\ modeFile' # Absent
          /\ modeFile'[1].parses
          /\ modeFile'[1].mode = event'.modeArg]_vars

\* C22: after one keyword activation and no further prompt, once the stop hook
\* has reached the ceiling and stopped continuing, no persistent-mode state
\* remains, so that no later stop event of the session is continued (the
\* continuations injected before are fewer than maxIterations).
C22_CeilingEndsContinuation ==
  [][(event'.hook = "persistent-mode"
      /\ output'.kind \in {"ralph-stopped", "ultrawork-stopped"})
       => (ralphState' = Absent /\ ultraworkState' = Absent)]_vars

\* C23: a command run without a mode argument (init without --mode, apply,
\* refresh) leaves the recorded mode alone: a persisted omc-only or integrated
\* mode is still recorded afterwards.
C23_ModeKeptWithoutModeArg ==
  [][(event'.hook \in {"init", "apply", "refresh"} /\ event'.modeArg = "")
       => \A m \in {"omc-only", "integrated"} : Records(m) => Records(m)']_vars

\* the state file as a session sees it when the states of other sessions are
\* taken away
WithoutForeign(file, sessionId) ==
  IF file # Absent /\ file[1].sessionId # sessionId THEN Absent ELSE file

\* C24: a persistent-mode state owned by another session has no influence on a
\* stop event: the output and the changes to the session's own states are those
\* the hook makes when the foreign state does not exist, and the foreign state
\* is left as it is.
C24_ForeignStateNoInfluence ==
  [][(event'.hook = "persistent-mode" /\ StandaloneRecorded /\ event'.sessionId # "")
       => LET sid == event'.sessionId
              alone == PersistentModeCheck(event'.userRequested, event'.stopReason, sid,
                                           WithoutForeign(ralphState, sid),
                                           WithoutForeign(ultraworkState, sid))
          IN /\ output' = alone.out
             /\ WithoutForeign(ralphState', sid) = alone.ralph
             /\ WithoutForeign(ultraworkState', sid) = alone.uw
             /\ (WithoutForeign(ralphState, sid) = Absent => ralphState' = ralphState)
             /\ (WithoutForeign(ultraworkState, sid) = Absent
                   => ultraworkState' = ultraworkState)]_vars

\* C25: the hooks yield only when the mode record explicitly holds omc-only or
\* integrated: on a record that is unparseable, lacks a mode field or holds a
\* value outside the three modes, the standalone logic runs.
C25_YieldOnlyOnExplicitMode ==
  [][(event'.hook \in {"keyword-detector", "persistent-mode", "pre-tool-use"}
      /\ ~Yielding)
       => StandaloneLogicRan(event')]_vars

\* C26: every workflow written by workflow add all can be started: some agent's
\* delegation, with no run active, creates a run of that workflow.
C26_GeneratedWorkflowsStartable ==
  \A i \in 1..Len(config.workflows) :
    \E agent \in GeneratorAgentNames :
      LET r == NoRunStep(Absent, config.workflows, agent, "s1") IN
      r.file # Absent /\ r.file[1].workflowName = config.workflows[i].name

\* the exclusive-use directive is in the generated content on disk
DirectiveOnDisk ==
  \E file \in {claudeMd, externalFile} \ {Absent} :
    Occurrences(file[1], AgentExclusivity) + Occurrences(file[1], AgentExclusivityLine) > 0

\* C27: after any sequence of init, apply, refresh and switch commands the
\* generated content on disk holds the exclusive-use directive only if the
\* persisted mode is standalone.
C27_DirectiveOnlyInStandalone ==
  DirectiveOnDisk => CurrentMode(modeFile) = "standalone"

\* C28: a workflow run started by one session is advanced or completed only by
\* delegation events of that session: a Task event that carries the id of
\* another session leaves the run state unchanged (both ids being known).
C28_RunOwnedBySession ==
  [][(/\ RunActive
      /\ IsTaskEvent(event')
      /\ event'.sessionId # ""
      /\ workflowState[1].sessionId # "unknown"
      /\ event'.sessionId # workflowState[1].sessionId)
     => workflowState' = workflowState]_vars

\* C29: the doctor's config-file check reports a config file written by the
\* tool itself as valid: it never reports a top-level key the tool writes as
\* unknown.
C29_WrittenConfigIsValid ==
  [][event'.hook = "doctor" => output'.kind = "config-valid"]_vars

\* the step list the configuration gives the workflow of that name
ConfiguredSteps(name) ==
  (CHOOSE wf \in {config.workflows[i] : i \in 1..Len(config.workflows)} :
     wf.name = name).steps

\* C30: in every persisted workflow run state reached through delegation
\* events, currentStepIndex is at least 1, completedSteps has exactly
\* currentStepIndex elements and equals the first currentStepIndex entries of
\* steps, and steps is the step list the named workflow has in the config the
\* run was started from.
C30_RunStateWellFormed ==
  workflowState # Absent =>
    LET st == workflowState[1] IN
    /\ st.currentStepIndex >= 1
    /\ Len(st.completedSteps) = st.currentStepIndex
    /\ st.currentStepIndex <= Len(st.steps)
    /\ st.completedSteps = SubSeq(st.steps, 1, st.currentStepIndex)
    /\ \E i \in 1..Len(config.workflows) : config.workflows[i].name = st.workflowName
    /\ st.steps = ConfiguredSteps(st.workflowName)

\* a run of a workflow of three steps has been advanced past its second step
C30_Witness ==
  /\ workflowState # Absent
  /\ IsTaskEvent(event)
  /\ output.kind = "workflow-step"
  /\ Len(workflowState[1].steps) >= 3
  /\ workflowState[1].currentStepIndex = 2

====
